---- MODULE Spec2Model ----
(***************************************************************************)
(* A model of the Mesos master's cluster state machine (master.hpp):       *)
(* the Slave and Framework bookkeeping structs, the offer tables, the      *)
(* agent transitional sets, and the registrar operations.                  *)
(***************************************************************************)
EXTENDS Integers, Sequences, FiniteSets, TLC

(***************************************************************************)
(* Bounds of the model.                                                    *)
(***************************************************************************)
\* Units of cpu an agent declares in SlaveInfo.resources.
MaxCpus == 2
\* Offers the master creates in one run (nextOfferId is capped here).
MaxOffers == 2
\* Accept calls whose authorization may be outstanding at the same time.
MaxPending == 1
\* Agent ids in the specification of the registry operations.
MaxRegistryIds == 3
\* Entries of the registry's admitted and unreachable lists together.
MaxRegistryLen == 3
\* Connections a framework makes in one run of the connection model.
MaxConnections == 4
\* Registry operations that may be queued at the registrar at a time.
MaxRegistryQueue == 2

\* Agent IDs the master hands out (nextSlaveId is capped here).
MaxSlaves == 2
\* Agents in the specification of tasks and executors.
MaxTaskSlaves == 1
\* Framework IDs the master hands out (nextFrameworkId is capped here).
MaxFrameworks == 2
\* Agent and framework IDs handed out in the specification of the bounded
\* history, one more than the history containers hold.
MaxHistorySlaves == 3
MaxHistoryFrameworks == 3
\* The clock stops at MaxClock.
MaxClock == 3

SlaveIds == 1..MaxSlaves
FrameworkIds == 1..MaxFrameworks
\* Every ID the master hands out in any of the specifications.
AllSlaveIds == 1..MaxHistorySlaves
AllFrameworkIds == 1..MaxHistoryFrameworks
OfferIds == 0..(MaxOffers - 1)
TaskIds == {1, 2}
ExecutorIds == {1}
\* Network addresses of agents and schedulers.
Pids == {1, 2}
\* Agent IDs the registry operations range over.
RegistryIds == 1..MaxRegistryIds

\* An unset Option, a null pointer.
None == -1
\* A null Task*.
NullTask == <<>>

(***************************************************************************)
(* hashmap<K, V> as a function with a finite domain of present keys.       *)
(***************************************************************************)
MapContains(m, k) == k \in DOMAIN m

MapGetOr(m, k, d) == IF k \in DOMAIN m THEN m[k] ELSE d

MapPut(m, k, v) == [x \in (DOMAIN m) \cup {k} |-> IF x = k THEN v ELSE m[x]]

MapErase(m, k) == [x \in (DOMAIN m) \ {k} |-> m[x]]

EmptyMap == [x \in {} |-> None]

RECURSIVE SetToSeq(_)
SetToSeq(S) ==
  IF S = {} THEN <<>>
  ELSE LET x == CHOOSE y \in S : TRUE IN <<x>> \o SetToSeq(S \ {x})

RemoveAt(s, i) == SubSeq(s, 1, i - 1) \o SubSeq(s, i + 1, Len(s))

SeqIds(s) == {s[i] : i \in 1..Len(s)}

(***************************************************************************)
(* The registry and the registrar operations (master.hpp, class Operation  *)
(* and its subclasses).  A registry is the admitted list `slaves` and the  *)
(* `unreachable` list; perform also takes the accumulator `slaveIDs`.      *)
(* A perform yields [result, registry, slaveIDs] with result one of        *)
(* "true" (mutation), "false" (no mutation), "error", or "abort".          *)
(***************************************************************************)
Times == {1, 2}

EmptyRegistry == [slaves |-> <<>>, unreachable |-> <<>>]

Outcome(result, registry, slaveIDs) ==
  [result |-> result, registry |-> registry, slaveIDs |-> slaveIDs]

\* Index of the first element of s satisfying Test, 0 when there is none
\* (the `for (int i = 0; i < size; i++)` scans).
FirstIndex(s, Test(_)) ==
  IF \E i \in 1..Len(s) : Test(s[i])
  THEN CHOOSE i \in 1..Len(s) : Test(s[i]) /\ \A j \in 1..(i - 1) : ~Test(s[j])
  ELSE 0

AdmitSlave_perform(registry, slaveIDs, id) ==
  IF id \in slaveIDs
  THEN Outcome("error", registry, slaveIDs)
  ELSE Outcome("true",
               [registry EXCEPT !.slaves = Append(@, id)],
               slaveIDs \cup {id})

MarkSlaveUnreachable_perform_Prepend(registry, slaveIDs, id, unreachableTime) ==
  IF id \notin slaveIDs
  THEN Outcome("error", registry, slaveIDs)
  ELSE LET i == FirstIndex(registry.slaves, LAMBDA x : x = id) IN
       IF i # 0
       THEN Outcome("true",
                    [slaves |-> RemoveAt(registry.slaves, i),
                     unreachable |->
                       <<[id |-> id, timestamp |-> unreachableTime]>>
                         \o registry.unreachable],
                    slaveIDs \ {id})
       ELSE Outcome("error", registry, slaveIDs)

MarkSlaveUnreachable_perform_KeepAdmitted(registry, slaveIDs, id, time) ==
  IF id \notin slaveIDs
  THEN Outcome("error", registry, slaveIDs)
  ELSE Outcome("true",
               [registry EXCEPT
                  !.unreachable =
                    Append(@, [id |-> id, timestamp |-> time])],
               slaveIDs \ {id})

MarkSlaveUnreachable_perform(registry, slaveIDs, id, unreachableTime) ==
  IF id \notin slaveIDs
  THEN Outcome("error", registry, slaveIDs)
  ELSE LET i == FirstIndex(registry.slaves, LAMBDA x : x = id) IN
       IF i # 0
       THEN Outcome("true",
                    [slaves |-> RemoveAt(registry.slaves, i),
                     unreachable |->
                       Append(registry.unreachable,
                              [id |-> id, timestamp |-> unreachableTime])],
                    slaveIDs \ {id})
       ELSE Outcome("error", registry, slaveIDs)

MarkSlaveReachable_perform_KeepUnreachable(registry, slaveIDs, id) ==
  IF id \in slaveIDs
  THEN Outcome("false", registry, slaveIDs)
  ELSE Outcome("true",
               [registry EXCEPT !.slaves = Append(@, id)],
               slaveIDs \cup {id})

MarkSlaveReachable_perform_Partial(registry, slaveIDs, id) ==
  IF id \in slaveIDs
  THEN Outcome("false", registry, slaveIDs)
  ELSE LET i == FirstIndex(registry.unreachable, LAMBDA x : x.id = id) IN
       IF i # 0
       THEN Outcome("error",
                    [registry EXCEPT !.unreachable = RemoveAt(@, i)],
                    slaveIDs)
       ELSE Outcome("true",
                    [registry EXCEPT !.slaves = Append(@, id)],
                    slaveIDs \cup {id})

MarkSlaveReachable_perform(registry, slaveIDs, id) ==
  IF id \in slaveIDs
  THEN Outcome("false", registry, slaveIDs)
  ELSE LET i == FirstIndex(registry.unreachable, LAMBDA x : x.id = id)
           unreachable == IF i # 0 THEN RemoveAt(registry.unreachable, i)
                          ELSE registry.unreachable
       IN Outcome("true",
                  [slaves |-> Append(registry.slaves, id),
                   unreachable |-> unreachable],
                  slaveIDs \cup {id})

\* RepeatedPtrField::DeleteSubrange(start, num) on a list, start counted
\* from 0.  With start + num beyond the size the call is undefined: a build
\* with DCHECKs aborts, a build without them closes a gap of num elements
\* and is left with size - num elements.
DeleteSubrange(s, start, num) ==
  IF start + num <= Len(s)
  THEN {[aborted |-> FALSE,
         list |-> SubSeq(s, 1, start) \o SubSeq(s, start + num + 1, Len(s))]}
  ELSE {[aborted |-> TRUE, list |-> s],
        [aborted |-> FALSE,
         list |-> SubSeq(s, 1, IF Len(s) >= num THEN Len(s) - num ELSE 0)]}

\* The while loop of PruneUnreachable::perform from index i (from 0) on.
RECURSIVE PruneUnreachable_loop(_, _, _, _)
PruneUnreachable_loop(unreachable, toRemove, i, mutate) ==
  IF i >= Len(unreachable)
  THEN {[aborted |-> FALSE, list |-> unreachable, mutate |-> mutate]}
  ELSE IF unreachable[i + 1].id \in toRemove
       THEN UNION {
              IF d.aborted
              THEN {[aborted |-> TRUE, list |-> unreachable, mutate |-> TRUE]}
              ELSE PruneUnreachable_loop(d.list, toRemove, i, TRUE)
              : d \in DeleteSubrange(unreachable, i, i + 1)}
       ELSE PruneUnreachable_loop(unreachable, toRemove, i + 1, mutate)

\* The set of outcomes of PruneUnreachable::perform.
PruneUnreachable_perform(registry, slaveIDs, toRemove) ==
  {IF r.aborted
   THEN Outcome("abort", registry, slaveIDs)
   ELSE Outcome(IF r.mutate THEN "true" ELSE "false",
                [registry EXCEPT !.unreachable = r.list],
                slaveIDs)
   : r \in PruneUnreachable_loop(registry.unreachable, toRemove, 0, FALSE)}

RemoveSlave_perform_KeepId(registry, slaveIDs, id) ==
  LET i == FirstIndex(registry.slaves, LAMBDA x : x = id) IN
  IF i # 0
  THEN Outcome("true", [registry EXCEPT !.slaves = RemoveAt(@, i)], slaveIDs)
  ELSE Outcome("error", registry, slaveIDs)

RemoveSlave_perform(registry, slaveIDs, id) ==
  LET i == FirstIndex(registry.slaves, LAMBDA x : x = id) IN
  IF i # 0
  THEN Outcome("true",
               [registry EXCEPT !.slaves = RemoveAt(@, i)],
               slaveIDs \ {id})
  ELSE Outcome("error", registry, slaveIDs)


(***************************************************************************)
(* Resources: a quantity per kind, "*" the unreserved resources, "role"    *)
(* the resources dynamically reserved for a role, and "volume" the         *)
(* reserved resources that carry a persistent volume.  Scalars add, and    *)
(* subtracting more than is there leaves nothing (Resources::subtract      *)
(* drops a scalar that would become negative).                             *)
(***************************************************************************)
Kinds == {"*", "role", "volume"}

\* u unreserved and r reserved, no volume.
Res(u, r) ==
  [k \in Kinds |-> IF k = "*" THEN u ELSE IF k = "role" THEN r ELSE 0]

RZero == Res(0, 0)

RAdd(a, b) == [k \in Kinds |-> a[k] + b[k]]

RSub(a, b) == [k \in Kinds |-> IF a[k] >= b[k] THEN a[k] - b[k] ELSE 0]

RContains(a, b) == \A k \in Kinds : b[k] <= a[k]

REmpty(a) == \A k \in Kinds : a[k] = 0

RECURSIVE RSum(_, _)
RSum(m, keys) ==
  IF keys = {} THEN RZero
  ELSE LET k == CHOOSE x \in keys : TRUE IN RAdd(m[k], RSum(m, keys \ {k}))

\* Resources::apply(operation) for RESERVE, UNRESERVE, CREATE and DESTROY
\* of n units: RESERVE reserves unreserved resources and UNRESERVE gives
\* them back, CREATE makes a persistent volume of reserved resources and
\* DESTROY gives them back.  The result is [ok, resources], not ok when the
\* resources to convert are not contained.
Resources_apply(resources, operation) ==
  LET from == CASE operation.type = "RESERVE" -> "*"
                [] operation.type = "UNRESERVE" -> "role"
                [] operation.type = "CREATE" -> "role"
                [] operation.type = "DESTROY" -> "volume"
      to == CASE operation.type = "RESERVE" -> "role"
              [] operation.type = "UNRESERVE" -> "*"
              [] operation.type = "CREATE" -> "volume"
              [] operation.type = "DESTROY" -> "role"
  IN IF resources[from] >= operation.n
     THEN [ok |-> TRUE,
           resources |-> [resources EXCEPT ![from] = @ - operation.n,
                                           ![to] = @ + operation.n]]
     ELSE [ok |-> FALSE, resources |-> resources]

\* Resources::filter(needCheckpointing): the dynamically reserved part and
\* the persistent volumes.
NeedCheckpointing(resources) == [resources EXCEPT !["*"] = 0]

(***************************************************************************)
(* Task states.                                                            *)
(***************************************************************************)
TerminalStates ==
  {"TASK_FINISHED", "TASK_FAILED", "TASK_KILLED", "TASK_LOST",
   "TASK_UNREACHABLE", "TASK_DROPPED", "TASK_ERROR"}

isTerminalState(state) == state \in TerminalStates

\* The states of a task: staging, starting, running and the terminal states.
TaskStates == {"TASK_STAGING", "TASK_STARTING", "TASK_RUNNING"} \cup TerminalStates

(***************************************************************************)
(* struct Slave.  A Task* is the pair <<framework_id, task_id>> into the   *)
(* task heap, an Offer* is the offer's id.  Each method is the struct      *)
(* after the call; X_CHECK is the conjunction of the CHECKs the call makes.*)
(* A Task carries two history fields, each capped at 2: `terminations`,    *)
(* the number of Slave::taskTerminated calls made for it, and              *)
(* `terminalUpdates`, the number of terminal status updates applied to it. *)
(***************************************************************************)
\* applyCheckpointedResources(info.resources(), checkpointedResources):
\* every checkpointed resource (reserved, or a volume) replaces its
\* unreserved part.
applyCheckpointedResources(resources, checkpointedResources) ==
  LET checkpointed == checkpointedResources["role"]
                        + checkpointedResources["volume"]
  IN IF resources["*"] >= checkpointed
     THEN [ok |-> TRUE,
           resources |->
             [resources EXCEPT
                !["*"] = @ - checkpointed,
                !["role"] = @ + checkpointedResources["role"],
                !["volume"] = @ + checkpointedResources["volume"]]]
     ELSE [ok |-> FALSE, resources |-> resources]

Slave_getTask(slave, frameworkId, taskId) ==
  IF MapContains(slave.tasks, frameworkId) /\ taskId \in slave.tasks[frameworkId]
  THEN <<frameworkId, taskId>>
  ELSE NullTask

Slave_addTask_CHECK(slave, task) ==
  task.task_id \notin MapGetOr(slave.tasks, task.framework_id, {})

Slave_addTask(slave, task) ==
  LET f == task.framework_id
      withTask == [slave EXCEPT !.tasks =
                     MapPut(@, f, MapGetOr(@, f, {}) \cup {task.task_id})]
  IN IF ~isTerminalState(task.state)
     THEN [withTask EXCEPT !.usedResources =
             MapPut(@, f, RAdd(MapGetOr(@, f, RZero), task.resources))]
     ELSE withTask

Slave_taskTerminated_CHECK(slave, task) ==
  /\ isTerminalState(task.state)
  /\ task.task_id \in MapGetOr(slave.tasks, task.framework_id, {})

Slave_taskTerminated_Forget(slave, task) == slave

Slave_taskTerminated(slave, task) ==
  LET f == task.framework_id
      \* tasks[frameworkId] in the CHECK inserts the key when it is absent.
      tasks == MapPut(slave.tasks, f, MapGetOr(slave.tasks, f, {}))
      used == MapPut(slave.usedResources, f,
                     RSub(MapGetOr(slave.usedResources, f, RZero),
                          task.resources))
  IN [slave EXCEPT
        !.tasks = tasks,
        !.usedResources =
          IF ~MapContains(tasks, f) /\ ~MapContains(slave.executors, f)
          THEN MapErase(used, f)
          ELSE used]

Slave_removeTask_CHECK(slave, task) ==
  task.task_id \in MapGetOr(slave.tasks, task.framework_id, {})

Slave_removeTask(slave, task) ==
  LET f == task.framework_id
      tasks0 == MapPut(slave.tasks, f, MapGetOr(slave.tasks, f, {}))
      used0 == MapPut(slave.usedResources, f,
                      RSub(MapGetOr(slave.usedResources, f, RZero),
                           task.resources))
      used == IF ~isTerminalState(task.state)
              THEN IF ~MapContains(tasks0, f) /\ ~MapContains(slave.executors, f)
                   THEN MapErase(used0, f)
                   ELSE used0
              ELSE slave.usedResources
      tasks1 == MapPut(tasks0, f, tasks0[f] \ {task.task_id})
      tasks == IF tasks1[f] = {} THEN MapErase(tasks1, f) ELSE tasks1
  IN [slave EXCEPT !.tasks = tasks, !.usedResources = used]

Slave_addOffer_CHECK(slave, offerId) == offerId \notin slave.offers

Slave_addOffer(slave, offerId, resources) ==
  [slave EXCEPT !.offers = @ \cup {offerId},
                !.offeredResources = RAdd(@, resources)]

Slave_removeOffer_CHECK(slave, offerId) == offerId \in slave.offers

Slave_removeOffer_KeepResources(slave, offerId, resources) ==
  [slave EXCEPT !.offers = @ \ {offerId}]

Slave_removeOffer_KeepOffer(slave, offerId, resources) ==
  [slave EXCEPT !.offeredResources = RSub(@, resources)]

Slave_removeOffer(slave, offerId, resources) ==
  [slave EXCEPT !.offeredResources = RSub(@, resources),
                !.offers = @ \ {offerId}]

\* Slave::addInverseOffer(inverseOffer), Slave::removeInverseOffer
Slave_addInverseOffer_CHECK(slave, inverseOfferId) ==
  inverseOfferId \notin slave.inverseOffers

Slave_addInverseOffer(slave, inverseOfferId) ==
  [slave EXCEPT !.inverseOffers = @ \cup {inverseOfferId}]

Slave_removeInverseOffer_CHECK(slave, inverseOfferId) ==
  inverseOfferId \in slave.inverseOffers

Slave_removeInverseOffer(slave, inverseOfferId) ==
  [slave EXCEPT !.inverseOffers = @ \ {inverseOfferId}]

Slave_hasExecutor(slave, frameworkId, executorId) ==
  /\ MapContains(slave.executors, frameworkId)
  /\ MapContains(slave.executors[frameworkId], executorId)

Slave_addExecutor_CHECK(slave, frameworkId, executorId) ==
  ~Slave_hasExecutor(slave, frameworkId, executorId)

Slave_addExecutor_Twice(slave, frameworkId, executorId, resources) ==
  [slave EXCEPT
     !.executors =
       MapPut(@, frameworkId,
              MapPut(MapGetOr(@, frameworkId, EmptyMap), executorId, resources)),
     !.usedResources =
       MapPut(@, frameworkId,
              RAdd(RAdd(MapGetOr(@, frameworkId, RZero), resources),
                   resources))]

Slave_addExecutor(slave, frameworkId, executorId, resources) ==
  [slave EXCEPT
     !.executors =
       MapPut(@, frameworkId,
              MapPut(MapGetOr(@, frameworkId, EmptyMap), executorId, resources)),
     !.usedResources =
       MapPut(@, frameworkId,
              RAdd(MapGetOr(@, frameworkId, RZero), resources))]

\* The executors an agent reports when it is constructed: none, one, one
\* twice, and one whose ExecutorInfo names no framework.
ExecutorInfoLists ==
  LET e == [framework_id |-> 1, executor_id |-> 1, resources |-> Res(1, 0)]
  IN {<<>>, <<e>>, <<e, e>>, <<[e EXCEPT !.framework_id = None]>>}

\* Slave::Slave(master, info, pid, ..., checkpointedResources,
\* executorInfos, tasks): the members, then addExecutor for every
\* ExecutorInfo and addTask for every Task, in the order given.  An
\* identifier that a message does not have is None.
Slave_Slave_members(id, pid, resources, checkpointedResources) ==
  [id |-> id,
   pid |-> pid,
   connected |-> TRUE,
   active |-> TRUE,
   executors |-> EmptyMap,
   tasks |-> EmptyMap,
   offers |-> {},
   inverseOffers |-> {},
   usedResources |-> EmptyMap,
   offeredResources |-> RZero,
   checkpointedResources |-> checkpointedResources,
   totalResources |->
     applyCheckpointedResources(resources, checkpointedResources).resources]

RECURSIVE Slave_Slave_addExecutors(_, _)
Slave_Slave_addExecutors(slave, executorInfos) ==
  IF executorInfos = <<>> THEN slave
  ELSE Slave_Slave_addExecutors(
         Slave_addExecutor(slave, Head(executorInfos).framework_id,
                           Head(executorInfos).executor_id,
                           Head(executorInfos).resources),
         Tail(executorInfos))

RECURSIVE Slave_Slave_addExecutors_CHECK(_, _)
Slave_Slave_addExecutors_CHECK(slave, executorInfos) ==
  IF executorInfos = <<>> THEN TRUE
  ELSE /\ Head(executorInfos).framework_id # None
       /\ Slave_addExecutor_CHECK(slave, Head(executorInfos).framework_id,
                                  Head(executorInfos).executor_id)
       /\ Slave_Slave_addExecutors_CHECK(
            Slave_Slave_addExecutors(slave, <<Head(executorInfos)>>),
            Tail(executorInfos))

RECURSIVE Slave_Slave_addTasks(_, _)
Slave_Slave_addTasks(slave, tasks) ==
  IF tasks = <<>> THEN slave
  ELSE Slave_Slave_addTasks(Slave_addTask(slave, Head(tasks)), Tail(tasks))

RECURSIVE Slave_Slave_addTasks_CHECK(_, _)
Slave_Slave_addTasks_CHECK(slave, tasks) ==
  IF tasks = <<>> THEN TRUE
  ELSE /\ Slave_addTask_CHECK(slave, Head(tasks))
       /\ Slave_Slave_addTasks_CHECK(Slave_addTask(slave, Head(tasks)),
                                     Tail(tasks))

Slave_Slave_CHECK(id, pid, resources, checkpointedResources, executorInfos, tasks) ==
  /\ id # None
  /\ applyCheckpointedResources(resources, checkpointedResources).ok
  /\ Slave_Slave_addExecutors_CHECK(
       Slave_Slave_members(id, pid, resources, checkpointedResources),
       executorInfos)
  /\ Slave_Slave_addTasks_CHECK(
       Slave_Slave_addExecutors(
         Slave_Slave_members(id, pid, resources, checkpointedResources),
         executorInfos),
       tasks)

Slave_Slave(id, pid, resources, checkpointedResources, executorInfos, tasks) ==
  Slave_Slave_addTasks(
    Slave_Slave_addExecutors(
      Slave_Slave_members(id, pid, resources, checkpointedResources),
      executorInfos),
    tasks)

Slave_removeExecutor_CHECK(slave, frameworkId, executorId) ==
  Slave_hasExecutor(slave, frameworkId, executorId)

Slave_removeExecutor(slave, frameworkId, executorId) ==
  LET resources == slave.executors[frameworkId][executorId]
      executors1 == MapPut(slave.executors, frameworkId,
                           MapErase(slave.executors[frameworkId], executorId))
      executors == IF DOMAIN executors1[frameworkId] = {}
                   THEN MapErase(executors1, frameworkId)
                   ELSE executors1
  IN [slave EXCEPT
        !.usedResources =
          MapPut(@, frameworkId,
                 RSub(MapGetOr(@, frameworkId, RZero), resources)),
        !.executors = executors]

Slave_apply_CHECK(slave, operation) ==
  Resources_apply(slave.totalResources, operation).ok

Slave_apply_TotalOnly(slave, operation) ==
  [slave EXCEPT !.totalResources =
                  Resources_apply(slave.totalResources, operation).resources]

Slave_apply(slave, operation) ==
  LET total == Resources_apply(slave.totalResources, operation).resources
  IN [slave EXCEPT !.totalResources = total,
                   !.checkpointedResources = NeedCheckpointing(total)]


(***************************************************************************)
(* struct Framework.  An HttpConnection is its stream id (a number), a     *)
(* heartbeater is the stream id it was spawned for.                        *)
(***************************************************************************)
\* struct Role: the hashmap `frameworks`, as the ids of its member
\* frameworks; resources() reads the members through the framework table.
Role_Role == {}

Role_addFramework(role, framework) == role \cup {framework.id}

Role_removeFramework_Keep(role, framework) == role

Role_removeFramework(role, framework) == role \ {framework.id}

Role_resources(role, registered) ==
  RSum([f \in role |-> RAdd(registered[f].totalUsedResources,
                            registered[f].totalOfferedResources)], role)

\* FrameworkInfo.role when the scheduler names none.
DefaultRole == "*"

\* Framework::Framework(master, flags, info, pid or http, time); of the
\* FrameworkInfo the id and the role are kept.
Framework_Framework(id, role, pid, http, time) ==
  [id |-> id,
   role |-> role,
   pid |-> pid,
   http |-> http,
   heartbeater |-> None,
   connected |-> TRUE,
   active |-> TRUE,
   reregisteredTime |-> time,
   tasks |-> {},
   completedTasks |-> <<>>,
   offers |-> {},
   inverseOffers |-> {},
   executors |-> EmptyMap,
   totalUsedResources |-> RZero,
   usedResources |-> EmptyMap,
   totalOfferedResources |-> RZero,
   offeredResources |-> EmptyMap]

Framework_getTask(framework, taskId) ==
  IF taskId \in framework.tasks THEN <<framework.id, taskId>> ELSE NullTask

Framework_addTask_CHECK(framework, task) == task.task_id \notin framework.tasks

Framework_addTask_Untracked(framework, task) ==
  [framework EXCEPT !.tasks = @ \cup {task.task_id}]

Framework_addTask(framework, task) ==
  LET withTask == [framework EXCEPT !.tasks = @ \cup {task.task_id}]
  IN IF ~isTerminalState(task.state)
     THEN [withTask EXCEPT
             !.totalUsedResources = RAdd(@, task.resources),
             !.usedResources =
               MapPut(@, task.slave_id,
                      RAdd(MapGetOr(@, task.slave_id, RZero), task.resources))]
     ELSE withTask

\* `usedResources[slave] -= resources` followed by the erase of an entry
\* that became empty (Framework::taskTerminated, removeTask, removeExecutor).
SubtractAndErase(m, k, resources) ==
  LET v == RSub(MapGetOr(m, k, RZero), resources)
  IN IF REmpty(v) THEN MapErase(m, k) ELSE MapPut(m, k, v)

Framework_taskTerminated_CHECK(framework, task) ==
  /\ isTerminalState(task.state)
  /\ task.task_id \in framework.tasks

Framework_taskTerminated_Forget(framework, task) == framework

Framework_taskTerminated(framework, task) ==
  [framework EXCEPT
     !.totalUsedResources = RSub(@, task.resources),
     !.usedResources = SubtractAndErase(@, task.slave_id, task.resources)]

CircularPushBack_DropYoungest(buffer, x, capacity) ==
  IF capacity = 0 THEN buffer
  ELSE IF Len(buffer) >= capacity
       THEN Append(SubSeq(buffer, 1, capacity - 1), x)
  ELSE Append(buffer, x)

\* boost::circular_buffer::push_back: a full buffer drops its oldest entry.
CircularPushBack(buffer, x, capacity) ==
  IF capacity = 0 THEN buffer
  ELSE IF Len(buffer) >= capacity THEN Append(Tail(buffer), x)
  ELSE Append(buffer, x)

\* const Flags flags: what the master was started with.  Of the flags the
\* model keeps the capacities of the three history containers, and with
\* them MAX_REMOVED_SLAVES, so that a specification chooses them in its
\* initial state.  No handler assigns flags.
VARIABLE flags

\* Capacity of Framework::completedTasks (max_completed_tasks_per_framework).
MaxCompletedTasks == flags.max_completed_tasks_per_framework

\* new Task(task), the copy that is archived: of the Task the id and the
\* state are kept.
CompletedTask(task) == [task_id |-> task.task_id, state |-> task.state]

\* The ids of the tasks in a framework's completed-task ring.
CompletedTaskIds(framework) ==
  {framework.completedTasks[i].task_id : i \in DOMAIN framework.completedTasks}

Framework_addCompletedTask_Unbounded(framework, task) ==
  [framework EXCEPT !.completedTasks = Append(@, CompletedTask(task))]

Framework_addCompletedTask_DropYoungest(framework, task) ==
  [framework EXCEPT
     !.completedTasks =
        CircularPushBack_DropYoungest(@, CompletedTask(task),
                                      MaxCompletedTasks)]

Framework_addCompletedTask(framework, task) ==
  [framework EXCEPT
     !.completedTasks =
        CircularPushBack(@, CompletedTask(task), MaxCompletedTasks)]

Framework_removeTask_CHECK(framework, task) == task.task_id \in framework.tasks

Framework_removeTask_Always(framework, task) ==
  LET accounted ==
        [framework EXCEPT
           !.totalUsedResources = RSub(@, task.resources),
           !.usedResources =
             SubtractAndErase(@, task.slave_id, task.resources)]
      archived == Framework_addCompletedTask(accounted, task)
  IN [archived EXCEPT !.tasks = @ \ {task.task_id}]

Framework_removeTask(framework, task) ==
  LET accounted ==
        IF ~isTerminalState(task.state)
        THEN [framework EXCEPT
                !.totalUsedResources = RSub(@, task.resources),
                !.usedResources =
                  SubtractAndErase(@, task.slave_id, task.resources)]
        ELSE framework
      archived == Framework_addCompletedTask(accounted, task)
  IN [archived EXCEPT !.tasks = @ \ {task.task_id}]

Framework_addOffer_CHECK(framework, offerId) == offerId \notin framework.offers

Framework_addOffer(framework, offerId, slaveId, resources) ==
  [framework EXCEPT
     !.offers = @ \cup {offerId},
     !.totalOfferedResources = RAdd(@, resources),
     !.offeredResources =
       MapPut(@, slaveId, RAdd(MapGetOr(@, slaveId, RZero), resources))]

Framework_removeOffer_CHECK(framework, offerId) == offerId \in framework.offers

Framework_removeOffer_KeepResources(framework, offerId, slaveId, resources) ==
  [framework EXCEPT !.offers = @ \ {offerId}]

Framework_removeOffer_KeepOffer(framework, offerId, slaveId, resources) ==
  [framework EXCEPT
     !.totalOfferedResources = RSub(@, resources),
     !.offeredResources = SubtractAndErase(@, slaveId, resources)]

Framework_removeOffer(framework, offerId, slaveId, resources) ==
  [framework EXCEPT
     !.totalOfferedResources = RSub(@, resources),
     !.offeredResources = SubtractAndErase(@, slaveId, resources),
     !.offers = @ \ {offerId}]

\* Framework::addInverseOffer(inverseOffer), Framework::removeInverseOffer
Framework_addInverseOffer_CHECK(framework, inverseOfferId) ==
  inverseOfferId \notin framework.inverseOffers

Framework_addInverseOffer(framework, inverseOfferId) ==
  [framework EXCEPT !.inverseOffers = @ \cup {inverseOfferId}]

Framework_removeInverseOffer_CHECK(framework, inverseOfferId) ==
  inverseOfferId \in framework.inverseOffers

Framework_removeInverseOffer_Keep(framework, inverseOfferId) == framework

Framework_removeInverseOffer(framework, inverseOfferId) ==
  [framework EXCEPT !.inverseOffers = @ \ {inverseOfferId}]

Framework_hasExecutor(framework, slaveId, executorId) ==
  /\ MapContains(framework.executors, slaveId)
  /\ MapContains(framework.executors[slaveId], executorId)

Framework_addExecutor_CHECK(framework, slaveId, executorId) ==
  ~Framework_hasExecutor(framework, slaveId, executorId)

Framework_addExecutor_PerAgentOnly(framework, slaveId, executorId, resources) ==
  [framework EXCEPT
     !.executors =
       MapPut(@, slaveId,
              MapPut(MapGetOr(@, slaveId, EmptyMap), executorId, resources)),
     !.usedResources =
       MapPut(@, slaveId, RAdd(MapGetOr(@, slaveId, RZero), resources))]

Framework_addExecutor(framework, slaveId, executorId, resources) ==
  [framework EXCEPT
     !.executors =
       MapPut(@, slaveId,
              MapPut(MapGetOr(@, slaveId, EmptyMap), executorId, resources)),
     !.totalUsedResources = RAdd(@, resources),
     !.usedResources =
       MapPut(@, slaveId, RAdd(MapGetOr(@, slaveId, RZero), resources))]

Framework_removeExecutor_CHECK(framework, slaveId, executorId) ==
  Framework_hasExecutor(framework, slaveId, executorId)

Framework_removeExecutor(framework, slaveId, executorId) ==
  LET resources == framework.executors[slaveId][executorId]
      executors1 == MapPut(framework.executors, slaveId,
                           MapErase(framework.executors[slaveId], executorId))
      executors == IF DOMAIN executors1[slaveId] = {}
                   THEN MapErase(executors1, slaveId)
                   ELSE executors1
  IN [framework EXCEPT
        !.totalUsedResources = RSub(@, resources),
        !.usedResources = SubtractAndErase(@, slaveId, resources),
        !.executors = executors]

\* HttpConnection::send(message): writer.write fails on a closed pipe.
HttpConnection_send(connection, closed) ==
  connection \notin closed

\* Framework::closeHttpConnection: http is cleared before the heartbeater
\* is checked, so a failing CHECK_SOME(heartbeater) leaves http unset.
Framework_closeHttpConnection_CHECK(framework) ==
  /\ framework.http # None
  /\ framework.heartbeater # None

Framework_closeHttpConnection_KeepHeartbeater(framework) ==
  [framework EXCEPT !.http = None]

\* closeHttpConnection up to process::wait(heartbeater): http is cleared,
\* the Heartbeater is told to terminate and is still there.
Framework_closeHttpConnection_wait(framework) ==
  [framework EXCEPT !.http = None]

\* closeHttpConnection from entry to return.
Framework_closeHttpConnection(framework) ==
  [Framework_closeHttpConnection_wait(framework) EXCEPT !.heartbeater = None]

\* Heartbeater::heartbeat of the Heartbeater of connection `connection`,
\* with `closed` the pipes that are closed: the event is sent when the
\* connection is not closed; TRUE when it was written to the pipe.
Heartbeater_heartbeat(connection, closed) ==
  /\ connection \notin closed
  /\ HttpConnection_send(connection, closed)

Framework_updateConnection_pid_CHECK(framework, newPid) ==
  framework.http # None => Framework_closeHttpConnection_CHECK(framework)

Framework_updateConnection_pid_KeepHttp(framework, newPid) ==
  [framework EXCEPT !.pid = newPid]

Framework_updateConnection_pid(framework, newPid) ==
  LET closed == IF framework.http # None
                THEN Framework_closeHttpConnection(framework)
                ELSE framework
  IN [closed EXCEPT !.pid = newPid]

\* CHECK_NONE(http) after the old connection is dropped.
Framework_updateConnection_http_CHECK(framework, newHttp) ==
  IF framework.pid # None
  THEN framework.http = None
  ELSE Framework_closeHttpConnection_CHECK(framework)

Framework_updateConnection_http(framework, newHttp) ==
  LET cleared == IF framework.pid # None
                 THEN [framework EXCEPT !.pid = None]
                 ELSE Framework_closeHttpConnection(framework)
  IN [cleared EXCEPT !.http = newHttp]

\* Framework::send(message), with `closed` the pipes that are closed:
\* a warning is logged for a framework that is not connected, and the send
\* goes on; HttpConnection::send fails on a closed pipe, which is logged;
\* without an HTTP connection CHECK_SOME(pid) and the message goes to pid.
Framework_send_CHECK(framework) ==
  framework.http = None => framework.pid # None

Framework_send(framework, closed) ==
  [warned |-> \/ ~framework.connected
              \/ (framework.http # None
                    /\ ~HttpConnection_send(framework.http, closed)),
   delivered |-> IF framework.http # None
                 THEN IF HttpConnection_send(framework.http, closed)
                      THEN "http" ELSE "none"
                 ELSE "pid"]

Framework_heartbeat_CHECK(framework) ==
  /\ framework.heartbeater = None
  /\ framework.http # None

Framework_heartbeat(framework) ==
  [framework EXCEPT !.heartbeater = framework.http]


(***************************************************************************)
(* The master's state.                                                     *)
(*   slaves       struct Slaves: registered (the index by id and by pid),  *)
(*                registering, reregistering,                              *)
(*                recovered, removing, markingUnreachable, removed,        *)
(*                unreachable, recoveredTimer                              *)
(*   frameworks   struct Frameworks: registered, completed                 *)
(*   offers       hashmap<OfferID, Offer*>, with offerTimers               *)
(*   inverseOffers   hashmap<OfferID, InverseOffer*>, with                 *)
(*                inverseOfferTimers                                       *)
(*   tasks        the Task objects, by <<framework_id, task_id>>           *)
(*   nextIds      nextFrameworkId, nextOfferId, nextSlaveId                *)
(*   registry, slaveIDs   the registrar's registry and its accumulator     *)
(*   registrar    operations queued at the registrar, oldest first         *)
(*   pending      authorizer and allocator calls whose completion has not  *)
(*                been delivered to the master yet                         *)
(*   allocator    the allocator's view: total and allocated resources      *)
(*   http         stream ids handed out, and the closed pipes              *)
(*   aborted      a CHECK failed (the process is gone)                     *)
(*   hist         history: the MarkSlaveUnreachable operations issued per  *)
(*                agent, the agents recovered at the failover, the agents  *)
(*                readmitted before the grace timer fired, the agents      *)
(*                whose re-registration reached the registrar, the         *)
(*                addresses whose registration was dropped as a duplicate, *)
(*                the clock's reading at the last framework                *)
(*                re-registration and the re-registrations per framework   *)
(*   regOp        history: the last registry operation and what it found   *)
(*   activeRoles  the Role objects by role name; a Role is the ids of its  *)
(*                member frameworks                                        *)
(*   flags        declared above: the capacities of the history containers *)
(***************************************************************************)
VARIABLES slaves, frameworks, offers, offerTimers, tasks, nextIds,
          registry, slaveIDs, registrar, pending, allocator, http,
          aborted, hist, regOp, activeRoles, inverseOffers,
          inverseOfferTimers

vars == <<slaves, frameworks, offers, offerTimers, tasks, nextIds,
          registry, slaveIDs, registrar, pending, allocator, http,
          aborted, hist, regOp, activeRoles, inverseOffers,
          inverseOfferTimers, flags>>

\* The tables the master's handlers read and write, as one record.
State ==
  [slaves |-> slaves, frameworks |-> frameworks, offers |-> offers,
   offerTimers |-> offerTimers, tasks |-> tasks, nextIds |-> nextIds,
   registrar |-> registrar, pending |-> pending, allocator |-> allocator,
   http |-> http, aborted |-> aborted, hist |-> hist,
   activeRoles |-> activeRoles, inverseOffers |-> inverseOffers,
   inverseOfferTimers |-> inverseOfferTimers]

Commit(st) ==
  /\ slaves' = st.slaves
  /\ frameworks' = st.frameworks
  /\ offers' = st.offers
  /\ offerTimers' = st.offerTimers
  /\ tasks' = st.tasks
  /\ nextIds' = st.nextIds
  /\ registrar' = st.registrar
  /\ pending' = st.pending
  /\ allocator' = st.allocator
  /\ http' = st.http
  /\ aborted' = st.aborted
  /\ hist' = st.hist
  /\ activeRoles' = st.activeRoles
  /\ inverseOffers' = st.inverseOffers
  /\ inverseOfferTimers' = st.inverseOfferTimers
  /\ UNCHANGED flags

registryVars == <<registry, slaveIDs, regOp>>

Abort(st) == [st EXCEPT !.aborted = TRUE]

\* Master::Slaves::registered: the agents by id (`ids`, holding the Slave
\* objects) and by address (`pids`, holding the id of the Slave pointed to).
Registered_contains_id(registered, slaveId) == MapContains(registered.ids, slaveId)

Registered_contains_pid(registered, pid) == MapContains(registered.pids, pid)

Registered_get_id(registered, slaveId) ==
  IF MapContains(registered.ids, slaveId) THEN slaveId ELSE None

Registered_get_pid(registered, pid) == MapGetOr(registered.pids, pid, None)

Registered_put_IdOnly(registered, slave) ==
  [registered EXCEPT !.ids = MapPut(@, slave.id, slave)]

Registered_put(registered, slave) ==
  [ids |-> MapPut(registered.ids, slave.id, slave),
   pids |-> MapPut(registered.pids, slave.pid, slave.id)]

Registered_remove_PidOnly(registered, slave) ==
  [ids |-> registered.ids,
   pids |-> MapErase(registered.pids, slave.pid)]

Registered_remove_Keep(registered, slave) == registered

Registered_remove(registered, slave) ==
  [ids |-> MapErase(registered.ids, slave.id),
   pids |-> MapErase(registered.pids, slave.pid)]

Registered_clear(registered) == [ids |-> EmptyMap, pids |-> EmptyMap]

Registered_size(registered) == Cardinality(DOMAIN registered.ids)

EmptySlaves ==
  [registered |-> [ids |-> EmptyMap, pids |-> EmptyMap],
   registering |-> {},
   reregistering |-> {},
   recovered |-> {},
   removing |-> {},
   markingUnreachable |-> {},
   removed |-> <<>>,
   unreachable |-> <<>>,
   recoveredTimer |-> "none"]

Slaves_transitioning_Any(sl, slaveId) == sl.recovered # {}

Slaves_transitioning_IdOnly(sl, slaveId) ==
  slaveId # None /\ slaveId \in sl.recovered

\* Master::Slaves::transitioning(slaveId), slaveId None for "any agent".
Slaves_transitioning(sl, slaveId) ==
  IF slaveId # None THEN slaveId \in sl.recovered ELSE sl.recovered # {}

Master_getFramework(st, frameworkId) ==
  IF MapContains(st.frameworks.registered, frameworkId)
  THEN frameworkId ELSE None

Master_getOffer(st, offerId) ==
  IF MapContains(st.offers, offerId) THEN offerId ELSE None

(***************************************************************************)
(* The allocator, as the master's protocol with it sees it: per agent the  *)
(* total resources, per (framework, agent) what is allocated (offered,     *)
(* accepted and not yet launched, or used).                                *)
(***************************************************************************)
EmptyAllocator ==
  [total |-> EmptyMap,
   allocated |-> [x \in AllFrameworkIds \X AllSlaveIds |-> RZero],
   frameworks |-> {},
   slaves |-> {}]

Allocator_available(al, slaveId) ==
  RSub(al.total[slaveId],
       RSum([f \in AllFrameworkIds |-> al.allocated[<<f, slaveId>>]],
            AllFrameworkIds))

Allocator_recoverResources(al, frameworkId, slaveId, resources) ==
  IF MapContains(al.total, slaveId)
  THEN [al EXCEPT !.allocated[<<frameworkId, slaveId>>] = RSub(@, resources)]
  ELSE al

\* The allocator is told the agent's total resources and what each
\* framework uses of them already.
Allocator_addSlave(al, slaveId, total, used) ==
  [al EXCEPT !.total = MapPut(@, slaveId, total),
             !.slaves = @ \cup {slaveId},
             !.allocated =
               [x \in AllFrameworkIds \X AllSlaveIds |->
                  IF x[2] = slaveId /\ x[1] \in DOMAIN used
                  THEN used[x[1]] ELSE @[x]]]

Allocator_removeSlave(al, slaveId) ==
  [al EXCEPT !.total = MapErase(@, slaveId),
             !.slaves = @ \ {slaveId},
             !.allocated =
               [x \in AllFrameworkIds \X AllSlaveIds |->
                  IF x[2] = slaveId THEN RZero ELSE @[x]]]

Allocator_addFramework(al, frameworkId) ==
  [al EXCEPT !.frameworks = @ \cup {frameworkId}]

Allocator_deactivateFramework(al, frameworkId) ==
  [al EXCEPT !.frameworks = @ \ {frameworkId}]

Allocator_removeFramework(al, frameworkId) ==
  [al EXCEPT !.frameworks = @ \ {frameworkId},
             !.allocated =
               [x \in AllFrameworkIds \X AllSlaveIds |->
                  IF x[1] = frameworkId THEN RZero ELSE @[x]]]

\* updateAllocation / updateAvailable: the operation is applied to the
\* agent's total and, for an allocation, to what the framework holds.
Allocator_updateAllocation(al, frameworkId, slaveId, operation) ==
  [al EXCEPT
     !.total[slaveId] = Resources_apply(@, operation).resources,
     !.allocated[<<frameworkId, slaveId>>] =
       Resources_apply(@, operation).resources]

Allocator_updateAvailable_ok(al, slaveId, operation) ==
  /\ MapContains(al.total, slaveId)
  /\ Resources_apply(Allocator_available(al, slaveId), operation).ok

Allocator_updateAvailable(al, slaveId, operation) ==
  [al EXCEPT !.total[slaveId] = Resources_apply(@, operation).resources]


(***************************************************************************)
(* Master: tasks, executors and offers.  Each handler maps the state       *)
(* record to the state record after it.                                    *)
(***************************************************************************)
SlaveOf(st, slaveId) == st.slaves.registered.ids[slaveId]

FrameworkOf(st, frameworkId) == st.frameworks.registered[frameworkId]

SetSlave(st, slave) ==
  [st EXCEPT !.slaves.registered.ids[slave.id] = slave]

SetFramework(st, framework) ==
  [st EXCEPT !.frameworks.registered[framework.id] = framework]

Recover(st, frameworkId, slaveId, resources) ==
  [st EXCEPT !.allocator =
     Allocator_recoverResources(@, frameworkId, slaveId, resources)]

\* Master::removeOffer(offer, rescind).  The callers hold an Offer*: one
\* that is no longer in the offer table was deleted, and the CHECKs fail.
Master_removeOffer(st, offerId) ==
  LET offer == st.offers[offerId]
      f == offer.framework_id
      s == offer.slave_id
  IN IF Master_getOffer(st, offerId) = None THEN Abort(st)
     ELSE IF \/ Master_getFramework(st, f) = None
        \/ ~Framework_removeOffer_CHECK(FrameworkOf(st, f), offerId)
        \/ Registered_get_id(st.slaves.registered, s) = None
        \/ ~Slave_removeOffer_CHECK(SlaveOf(st, s), offerId)
     THEN Abort(st)
     ELSE LET st1 == SetFramework(st,
                       Framework_removeOffer(FrameworkOf(st, f), offerId, s,
                                             offer.resources))
              st2 == SetSlave(st1,
                       Slave_removeOffer(SlaveOf(st1, s), offerId,
                                         offer.resources))
          IN [st2 EXCEPT !.offerTimers = @ \ {offerId},
                         !.offers = MapErase(@, offerId)]

\* Master::offerTimeout(offerId)
Master_offerTimeout(st, offerId) ==
  IF Master_getOffer(st, offerId) # None
  THEN LET offer == st.offers[offerId]
       IN Master_removeOffer(
            Recover(st, offer.framework_id, offer.slave_id, offer.resources),
            offerId)
  ELSE st

Master_offer_Unchecked(st, frameworkId, slaveId, resources) ==
  IF \/ ~MapContains(st.frameworks.registered, frameworkId)
     \/ ~Registered_contains_id(st.slaves.registered, slaveId)
  THEN Recover(st, frameworkId, slaveId, resources)
  ELSE LET offerId == st.nextIds.nextOfferId
           offer == [framework_id |-> frameworkId, slave_id |-> slaveId,
                     resources |-> resources]
       IN IF \/ ~Framework_addOffer_CHECK(FrameworkOf(st, frameworkId), offerId)
             \/ ~Slave_addOffer_CHECK(SlaveOf(st, slaveId), offerId)
          THEN Abort(st)
          ELSE LET st1 == [st EXCEPT !.nextIds.nextOfferId = @ + 1,
                                     !.offers = MapPut(@, offerId, offer),
                                     !.offerTimers = @ \cup {offerId}]
                   st2 == SetFramework(st1,
                            Framework_addOffer(FrameworkOf(st1, frameworkId),
                                               offerId, slaveId, resources))
               IN SetSlave(st2,
                    Slave_addOffer(SlaveOf(st2, slaveId), offerId, resources))

\* Master::offer(frameworkId, {slaveId -> resources})
Master_offer(st, frameworkId, slaveId, resources) ==
  IF \/ ~MapContains(st.frameworks.registered, frameworkId)
     \/ ~FrameworkOf(st, frameworkId).active
     \/ ~Registered_contains_id(st.slaves.registered, slaveId)
     \/ ~SlaveOf(st, slaveId).active
  THEN Recover(st, frameworkId, slaveId, resources)
  ELSE LET offerId == st.nextIds.nextOfferId
           offer == [framework_id |-> frameworkId, slave_id |-> slaveId,
                     resources |-> resources]
       IN IF \/ ~Framework_addOffer_CHECK(FrameworkOf(st, frameworkId), offerId)
             \/ ~Slave_addOffer_CHECK(SlaveOf(st, slaveId), offerId)
          THEN Abort(st)
          ELSE LET st1 == [st EXCEPT !.nextIds.nextOfferId = @ + 1,
                                     !.offers = MapPut(@, offerId, offer),
                                     !.offerTimers = @ \cup {offerId}]
                   st2 == SetFramework(st1,
                            Framework_addOffer(FrameworkOf(st1, frameworkId),
                                               offerId, slaveId, resources))
               IN SetSlave(st2,
                    Slave_addOffer(SlaveOf(st2, slaveId), offerId, resources))

\* Master::getInverseOffer(inverseOfferId)
Master_getInverseOffer(st, inverseOfferId) ==
  IF MapContains(st.inverseOffers, inverseOfferId) THEN inverseOfferId
  ELSE None

\* Master::inverseOffer(frameworkId, {slaveId -> unavailableResources}): the
\* inverse offer gets the next offer id and enters the table, the agent's
\* set and the framework's set together, and its timer is armed.  Nothing
\* is done for a framework or an agent that is not registered and active.
Master_inverseOffer(st, frameworkId, slaveId) ==
  IF \/ ~MapContains(st.frameworks.registered, frameworkId)
     \/ ~FrameworkOf(st, frameworkId).active
     \/ ~Registered_contains_id(st.slaves.registered, slaveId)
     \/ ~SlaveOf(st, slaveId).active
  THEN st
  ELSE LET inverseOfferId == st.nextIds.nextOfferId
           inverseOffer == [framework_id |-> frameworkId,
                            slave_id |-> slaveId]
       IN IF \/ ~Framework_addInverseOffer_CHECK(FrameworkOf(st, frameworkId),
                                                 inverseOfferId)
             \/ ~Slave_addInverseOffer_CHECK(SlaveOf(st, slaveId),
                                             inverseOfferId)
          THEN Abort(st)
          ELSE LET st1 == [st EXCEPT
                             !.nextIds.nextOfferId = @ + 1,
                             !.inverseOffers =
                                MapPut(@, inverseOfferId, inverseOffer),
                             !.inverseOfferTimers = @ \cup {inverseOfferId}]
                   st2 == SetFramework(st1,
                            Framework_addInverseOffer(
                              FrameworkOf(st1, frameworkId), inverseOfferId))
               IN SetSlave(st2,
                    Slave_addInverseOffer(SlaveOf(st2, slaveId),
                                          inverseOfferId))

\* Master::removeInverseOffer(inverseOffer, rescind): the inverse offer
\* leaves the framework's set, the agent's set and the table, and its timer
\* is cancelled.
Master_removeInverseOffer(st, inverseOfferId) ==
  LET inverseOffer == st.inverseOffers[inverseOfferId]
      f == inverseOffer.framework_id
      s == inverseOffer.slave_id
  IN IF Master_getInverseOffer(st, inverseOfferId) = None THEN Abort(st)
     ELSE IF \/ Master_getFramework(st, f) = None
        \/ ~Framework_removeInverseOffer_CHECK(FrameworkOf(st, f),
                                               inverseOfferId)
        \/ Registered_get_id(st.slaves.registered, s) = None
        \/ ~Slave_removeInverseOffer_CHECK(SlaveOf(st, s), inverseOfferId)
     THEN Abort(st)
     ELSE LET st1 == SetFramework(st,
                       Framework_removeInverseOffer(FrameworkOf(st, f),
                                                    inverseOfferId))
              st2 == SetSlave(st1,
                       Slave_removeInverseOffer(SlaveOf(st1, s),
                                                inverseOfferId))
          IN [st2 EXCEPT !.inverseOfferTimers = @ \ {inverseOfferId},
                         !.inverseOffers = MapErase(@, inverseOfferId)]

\* The loops over slave->inverseOffers and framework->inverseOffers (agent
\* and framework removal): removeInverseOffer on every InverseOffer* held.
RECURSIVE RemoveHeldInverseOffers(_, _)
RemoveHeldInverseOffers(st, inverseOfferIds) ==
  IF inverseOfferIds = {} \/ st.aborted THEN st
  ELSE LET id == CHOOSE x \in inverseOfferIds :
                   \A y \in inverseOfferIds : x <= y
       IN RemoveHeldInverseOffers(Master_removeInverseOffer(st, id),
                                  inverseOfferIds \ {id})

\* Master::updateTask(task, update): the state moves unless it is terminal
\* already; resources are recovered on the move into a terminal state.
Master_updateTask_Overwrite(st, key, state) ==
  [st EXCEPT !.tasks[key].state = state]

Master_updateTask(st, key, state) ==
  LET task == st.tasks[key]
      terminated == ~isTerminalState(task.state) /\ isTerminalState(state)
      task1 == IF ~isTerminalState(task.state)
               THEN [task EXCEPT !.state = state] ELSE task
      st1 == [st EXCEPT !.tasks[key] =
                [task1 EXCEPT !.terminalUpdates =
                   IF isTerminalState(state) /\ @ < 2 THEN @ + 1 ELSE @]]
  IN IF ~terminated THEN st1
     ELSE LET st2 == Recover(st1, task.framework_id, task.slave_id,
                             task.resources)
          IN IF \/ Registered_get_id(st2.slaves.registered, task.slave_id) = None
                \/ ~Slave_taskTerminated_CHECK(SlaveOf(st2, task.slave_id), task1)
             THEN Abort(st2)
             ELSE LET st3 == SetSlave(
                               [st2 EXCEPT !.tasks[key].terminations =
                                              IF @ < 2 THEN @ + 1 ELSE @],
                               Slave_taskTerminated(SlaveOf(st2, task.slave_id),
                                                    task1))
                  IN IF Master_getFramework(st3, task.framework_id) = None
                     THEN st3
                     ELSE IF ~Framework_taskTerminated_CHECK(
                                FrameworkOf(st3, task.framework_id), task1)
                          THEN Abort(st3)
                          ELSE SetFramework(st3,
                                 Framework_taskTerminated(
                                   FrameworkOf(st3, task.framework_id), task1))

\* Master::removeTask(task)
Master_removeTask(st, key) ==
  LET task == st.tasks[key]
  IN IF Registered_get_id(st.slaves.registered, task.slave_id) = None
     THEN Abort(st)
     ELSE
       LET st1 == IF ~isTerminalState(task.state)
                  THEN Recover(st, task.framework_id, task.slave_id,
                               task.resources)
                  ELSE st
           hasFramework == Master_getFramework(st1, task.framework_id) # None
       IN IF \/ (hasFramework /\ ~Framework_removeTask_CHECK(
                                    FrameworkOf(st1, task.framework_id), task))
             \/ ~Slave_removeTask_CHECK(SlaveOf(st1, task.slave_id), task)
          THEN Abort(st1)
          ELSE LET st2 == IF hasFramework
                          THEN SetFramework(st1,
                                 Framework_removeTask(
                                   FrameworkOf(st1, task.framework_id), task))
                          ELSE st1
                   st3 == SetSlave(st2,
                            Slave_removeTask(SlaveOf(st2, task.slave_id), task))
               IN [st3 EXCEPT !.tasks = MapErase(@, key)]

\* removeTask for a task that is terminal, when `remove` and no CHECK has
\* failed before.
RemoveTerminalTask(st, key, remove) ==
  IF ~st.aborted /\ remove /\ isTerminalState(st.tasks[key].state)
  THEN Master_removeTask(st, key)
  ELSE st

\* Master::removeExecutor(slave, frameworkId, executorId)
Master_removeExecutor(st, slaveId, frameworkId, executorId) ==
  IF ~Slave_removeExecutor_CHECK(SlaveOf(st, slaveId), frameworkId, executorId)
  THEN Abort(st)
  ELSE LET resources == SlaveOf(st, slaveId).executors[frameworkId][executorId]
           st1 == Recover(st, frameworkId, slaveId, resources)
           hasFramework == Master_getFramework(st1, frameworkId) # None
       IN IF hasFramework /\ ~Framework_removeExecutor_CHECK(
                                FrameworkOf(st1, frameworkId), slaveId, executorId)
          THEN Abort(st1)
          ELSE LET st2 == IF hasFramework
                          THEN SetFramework(st1,
                                 Framework_removeExecutor(
                                   FrameworkOf(st1, frameworkId), slaveId,
                                   executorId))
                          ELSE st1
               IN SetSlave(st2,
                    Slave_removeExecutor(SlaveOf(st2, slaveId), frameworkId,
                                         executorId))

\* Master::addTask(task, framework, slave): the task and, when it is not
\* running yet, its executor; the result carries the resources consumed.
Master_addTask(st, taskInfo, frameworkId, slaveId) ==
  LET newExecutor ==
        /\ taskInfo.executor_id # None
        /\ ~Slave_hasExecutor(SlaveOf(st, slaveId), frameworkId,
                              taskInfo.executor_id)
      consumed == IF newExecutor
                  THEN RAdd(taskInfo.resources, taskInfo.executor_resources)
                  ELSE taskInfo.resources
      task == [task_id |-> taskInfo.task_id, framework_id |-> frameworkId,
               slave_id |-> slaveId, state |-> "TASK_STAGING",
               resources |-> taskInfo.resources,
               executor_id |-> taskInfo.executor_id,
               terminations |-> 0, terminalUpdates |-> 0]
      key == <<frameworkId, taskInfo.task_id>>
  IN IF \/ ~SlaveOf(st, slaveId).connected
        \/ (newExecutor /\ ~Framework_addExecutor_CHECK(
                              FrameworkOf(st, frameworkId), slaveId,
                              taskInfo.executor_id))
        \/ ~Slave_addTask_CHECK(SlaveOf(st, slaveId), task)
        \/ ~Framework_addTask_CHECK(FrameworkOf(st, frameworkId), task)
     THEN [st |-> Abort(st), consumed |-> RZero]
     ELSE LET slave1 == IF newExecutor
                        THEN Slave_addExecutor(SlaveOf(st, slaveId), frameworkId,
                                               taskInfo.executor_id,
                                               taskInfo.executor_resources)
                        ELSE SlaveOf(st, slaveId)
              framework1 == IF newExecutor
                            THEN Framework_addExecutor(
                                   FrameworkOf(st, frameworkId), slaveId,
                                   taskInfo.executor_id,
                                   taskInfo.executor_resources)
                            ELSE FrameworkOf(st, frameworkId)
              st1 == SetFramework(SetSlave(st, Slave_addTask(slave1, task)),
                                  Framework_addTask(framework1, task))
          IN [st |-> [st1 EXCEPT !.tasks = MapPut(@, key, task)],
              consumed |-> consumed]


(***************************************************************************)
(* Master: accept, decline, status updates.                                *)
(***************************************************************************)
ExecutorResources == Res(1, 0)

TaskInfos ==
  [task_id : TaskIds,
   resources : {Res(1, 0)},
   executor_id : {None} \cup ExecutorIds,
   executor_resources : {ExecutorResources}]

\* The operations an Accept call carries beside the launches.
ReserveOperations ==
  {[type |-> "RESERVE", n |-> 1], [type |-> "UNRESERVE", n |-> 1]}

\* The operations on an agent's resources that an operator asks for.
ResourceOperations ==
  [type : {"RESERVE", "UNRESERVE", "CREATE", "DESTROY"}, n : {1}]

\* The operation lists of an Accept call: nothing, or one task launched.
LaunchOperations ==
  {<<>>} \cup {<<[type |-> "LAUNCH", task |-> t]>> : t \in TaskInfos}

\* The operation lists that reserve or unreserve.
ReserveOperationLists == {<<o>> : o \in ReserveOperations}

\* validation::offer::validate: every offer exists, is the framework's,
\* is on a registered and connected agent, and all are on one agent.
Accept_error(st, frameworkId, offerIds) ==
  \/ offerIds = {}
  \/ \E id \in offerIds :
       \/ Master_getOffer(st, id) = None
       \/ st.offers[id].framework_id # frameworkId
       \/ Registered_get_id(st.slaves.registered, st.offers[id].slave_id) = None
       \/ ~SlaveOf(st, st.offers[id].slave_id).connected
  \/ \E i, j \in offerIds :
       /\ Master_getOffer(st, i) # None
       /\ Master_getOffer(st, j) # None
       /\ st.offers[i].slave_id # st.offers[j].slave_id

\* The loop of accept and decline over the offer ids: each offer that
\* still exists is removed, its resources recovered when `recover`.
RECURSIVE RemoveOffers(_, _, _)
RemoveOffers(st, offerIds, recover) ==
  IF offerIds = {} \/ st.aborted THEN st
  ELSE LET id == CHOOSE x \in offerIds : \A y \in offerIds : x <= y
           st1 == IF Master_getOffer(st, id) = None THEN st
                  ELSE LET offer == st.offers[id]
                       IN Master_removeOffer(
                            IF recover
                            THEN Recover(st, offer.framework_id, offer.slave_id,
                                         offer.resources)
                            ELSE st,
                            id)
       IN RemoveOffers(st1, offerIds \ {id}, recover)

\* The loops over slave->offers and framework->offers (agent and framework
\* removal, disconnection): removeOffer on every Offer* held.
RECURSIVE RemoveHeldOffers(_, _, _)
RemoveHeldOffers(st, offerIds, recover) ==
  IF offerIds = {} \/ st.aborted THEN st
  ELSE LET id == CHOOSE x \in offerIds : \A y \in offerIds : x <= y
           st1 == IF recover /\ Master_getOffer(st, id) # None
                  THEN Recover(st, st.offers[id].framework_id,
                               st.offers[id].slave_id, st.offers[id].resources)
                  ELSE st
       IN RemoveHeldOffers(Master_removeOffer(st1, id), offerIds \ {id}, recover)

\* Master::accept(framework, accept)
Master_accept_KeepInvalid(st, frameworkId, offerIds, operations) ==
  LET error == Accept_error(st, frameworkId, offerIds)
      existing == {id \in offerIds : Master_getOffer(st, id) # None}
      offeredResources ==
        RSum([id \in existing |-> st.offers[id].resources], existing)
      st1 == RemoveOffers(st, offerIds, FALSE)
  IN IF error THEN st
     ELSE IF st1.aborted THEN st1
     ELSE LET slaveId == st.offers[CHOOSE id \in existing : TRUE].slave_id
          IN [st1 EXCEPT !.pending = @ \cup
                {[type |-> "accept", framework_id |-> frameworkId,
                  slave_id |-> slaveId, offeredResources |-> offeredResources,
                  operations |-> operations]}]

Master_accept(st, frameworkId, offerIds, operations) ==
  LET error == Accept_error(st, frameworkId, offerIds)
      existing == {id \in offerIds : Master_getOffer(st, id) # None}
      offeredResources ==
        RSum([id \in existing |-> st.offers[id].resources], existing)
      st1 == RemoveOffers(st, offerIds, error)
  IN IF error \/ st1.aborted THEN st1
     ELSE LET slaveId == st.offers[CHOOSE id \in existing : TRUE].slave_id
          IN [st1 EXCEPT !.pending = @ \cup
                {[type |-> "accept", framework_id |-> frameworkId,
                  slave_id |-> slaveId, offeredResources |-> offeredResources,
                  operations |-> operations]}]

\* The loop of _accept over the operations: [st, offered], offered what is
\* left of the offered resources.
RECURSIVE Accept_operations(_, _, _, _, _, _)
Accept_operations(st, frameworkId, slaveId, operations, authorized, offered) ==
  IF operations = <<>> \/ st.aborted THEN [st |-> st, offered |-> offered]
  ELSE
    LET operation == Head(operations)
        rest == Tail(operations)
        skip == Accept_operations(st, frameworkId, slaveId, rest,
                                  Tail(authorized), offered)
    IN IF ~Head(authorized) THEN skip
       ELSE IF operation.type = "LAUNCH"
       THEN LET task == operation.task
                newExecutor ==
                  /\ task.executor_id # None
                  /\ ~Slave_hasExecutor(SlaveOf(st, slaveId), frameworkId,
                                        task.executor_id)
                needed == IF newExecutor
                          THEN RAdd(task.resources, task.executor_resources)
                          ELSE task.resources
                valid == /\ task.task_id \notin FrameworkOf(st, frameworkId).tasks
                         /\ RContains(offered, needed)
            IN IF ~valid THEN skip
               ELSE LET added == Master_addTask(st, task, frameworkId, slaveId)
                    IN Accept_operations(added.st, frameworkId, slaveId, rest,
                                         Tail(authorized),
                                         RSub(offered, added.consumed))
       ELSE LET applied == Resources_apply(offered, operation)
            IN IF ~applied.ok THEN skip
               ELSE IF ~Slave_apply_CHECK(SlaveOf(st, slaveId), operation)
               THEN [st |-> Abort(st), offered |-> offered]
               ELSE Accept_operations(
                      [SetSlave(st, Slave_apply(SlaveOf(st, slaveId), operation))
                         EXCEPT !.allocator =
                           Allocator_updateAllocation(@, frameworkId, slaveId,
                                                      operation)],
                      frameworkId, slaveId, rest, Tail(authorized),
                      applied.resources)

\* The end of Master::_accept: what the operations left of the offered
\* resources goes back to the allocator.
Master__accept_recover(done, frameworkId, slaveId) ==
  IF REmpty(done.offered) THEN done.st
  ELSE Recover(done.st, frameworkId, slaveId, done.offered)

\* Master::_accept(frameworkId, slaveId, offeredResources, accept,
\* authorizations), `authorized` the authorizer's answer per operation.
Master__accept_Unchecked(st, p, authorized) ==
  LET st0 == [st EXCEPT !.pending = @ \ {p}]
      f == p.framework_id
      s == p.slave_id
  IN IF \/ Master_getFramework(st0, f) = None
        \/ Registered_get_id(st0.slaves.registered, s) = None
     THEN Abort(st0)
     ELSE Master__accept_recover(
            Accept_operations(st0, f, s, p.operations, authorized,
                              p.offeredResources),
            f, s)

Master__accept(st, p, authorized) ==
  LET st0 == [st EXCEPT !.pending = @ \ {p}]
      f == p.framework_id
      s == p.slave_id
  IN IF Master_getFramework(st0, f) = None
     THEN Recover(st0, f, s, p.offeredResources)
     ELSE IF \/ Registered_get_id(st0.slaves.registered, s) = None
             \/ ~SlaveOf(st0, s).connected
     THEN Recover(st0, f, s, p.offeredResources)
     ELSE Master__accept_recover(
            Accept_operations(st0, f, s, p.operations, authorized,
                              p.offeredResources),
            f, s)

\* Master::decline(framework, decline)
Master_decline(st, frameworkId, offerIds) == RemoveOffers(st, offerIds, TRUE)

\* Master::statusUpdate(update, pid); acknowledged = FALSE is an update that
\* needs no acknowledgement (pid == UPID()).
Master_statusUpdate(st, slaveId, frameworkId, taskId, state, acknowledged) ==
  IF Registered_get_id(st.slaves.registered, slaveId) = None THEN st
  ELSE LET key == Slave_getTask(SlaveOf(st, slaveId), frameworkId, taskId)
       IN IF key = NullTask THEN st
          ELSE RemoveTerminalTask(Master_updateTask(st, key, state), key,
                                  ~acknowledged)

\* Master::acknowledge(framework, acknowledge): the acknowledgement of a
\* terminal update removes the task.
Master_acknowledge(st, frameworkId, slaveId, taskId) ==
  IF Registered_get_id(st.slaves.registered, slaveId) = None THEN st
  ELSE LET key == Slave_getTask(SlaveOf(st, slaveId), frameworkId, taskId)
       IN IF key # NullTask /\ isTerminalState(st.tasks[key].state)
          THEN Master_removeTask(st, key)
          ELSE st

\* Master::exitedExecutor(from, slaveId, frameworkId, executorId, status)
Master_exitedExecutor(st, slaveId, frameworkId, executorId) ==
  IF Registered_get_id(st.slaves.registered, slaveId) = None THEN st
  ELSE IF ~Slave_hasExecutor(SlaveOf(st, slaveId), frameworkId, executorId)
  THEN st
  ELSE Master_removeExecutor(st, slaveId, frameworkId, executorId)


(***************************************************************************)
(* Master: framework and agent lifecycle.                                  *)
(***************************************************************************)
\* Capacity of Frameworks::completed (max_completed_frameworks).
MaxCompletedFrameworks == flags.max_completed_frameworks
\* Capacity of Slaves::removed (MAX_REMOVED_SLAVES).
MaxRemovedSlaves == flags.max_removed_slaves

\* Cache<SlaveID, Nothing>::put: a new key evicts the oldest at capacity.
Cache_put(cache, key, capacity) ==
  IF key \in SeqIds(cache) THEN cache
  ELSE CircularPushBack(cache, key, capacity)

\* Master::subscribe for a new scheduler on a pid: new Framework(pid),
\* addFramework.
Master_addFramework(st, framework) ==
  [st EXCEPT
     !.frameworks.registered = MapPut(@, framework.id, framework),
     !.activeRoles =
       MapPut(@, framework.role,
              Role_addFramework(MapGetOr(@, framework.role, Role_Role),
                                framework)),
     !.allocator = Allocator_addFramework(@, framework.id)]

\* A subscription of a new framework whose FrameworkInfo names `role`.
Master_subscribe_role(st, pid, role) ==
  LET id == st.nextIds.nextFrameworkId
  IN Master_addFramework(
       [st EXCEPT !.nextIds.nextFrameworkId = @ + 1],
       Framework_Framework(id, role, pid, None, 0))

Master_subscribe_pid(st, pid) == Master_subscribe_role(st, pid, DefaultRole)

\* The loops of removeFramework and of agent removal over tasks: a task
\* that is not terminal is updated to `state`, then every task is removed.
RECURSIVE RemoveTasks(_, _, _)
RemoveTasks(st, keys, state) ==
  IF keys = {} \/ st.aborted THEN st
  ELSE LET key == CHOOSE k \in keys : TRUE
       IN RemoveTasks(
            RemoveTerminalTask(IF ~isTerminalState(st.tasks[key].state)
                               THEN Master_updateTask(st, key, state)
                               ELSE st,
                               key, TRUE),
            keys \ {key}, state)

\* Removal of the executors named by <<slaveId, frameworkId, executorId>>.
RECURSIVE RemoveExecutors(_, _)
RemoveExecutors(st, triples) ==
  IF triples = {} \/ st.aborted THEN st
  ELSE LET x == CHOOSE k \in triples : TRUE
       IN RemoveExecutors(
            IF Registered_get_id(st.slaves.registered, x[1]) = None
            THEN st
            ELSE Master_removeExecutor(st, x[1], x[2], x[3]),
            triples \ {x})

\* The end of Master::removeFramework: the Framework goes to the completed
\* ring and leaves the allocator.
Master_removeFramework_role(activeRoles_, framework) ==
  LET role == Role_removeFramework(
                MapGetOr(activeRoles_, framework.role, Role_Role), framework)
  IN IF role = Role_Role THEN MapErase(activeRoles_, framework.role)
     ELSE MapPut(activeRoles_, framework.role, role)

Master_removeFramework_erase(st, frameworkId) ==
  IF st.aborted THEN st
  ELSE [st EXCEPT
          !.activeRoles =
            Master_removeFramework_role(@, FrameworkOf(st, frameworkId)),
          !.frameworks.completed =
            CircularPushBack(@, frameworkId, MaxCompletedFrameworks),
          !.frameworks.registered = MapErase(@, frameworkId),
          !.allocator = Allocator_removeFramework(@, frameworkId)]

\* Master::removeFramework(framework): deactivation, then the tasks, the
\* executors and the offers (none of which the steps before it touch).
Master_removeFramework(st, frameworkId) ==
  LET framework == FrameworkOf(st, frameworkId)
      deactivated == IF framework.active
                     THEN [st EXCEPT !.allocator =
                             Allocator_deactivateFramework(@, frameworkId)]
                     ELSE st
  IN Master_removeFramework_erase(
       RemoveHeldInverseOffers(
         RemoveHeldOffers(
           RemoveExecutors(
             IF \E t \in framework.tasks :
                  Registered_get_id(st.slaves.registered,
                                    st.tasks[<<frameworkId, t>>].slave_id) = None
             THEN Abort(deactivated)
             ELSE RemoveTasks(deactivated,
                              {<<frameworkId, t>> : t \in framework.tasks},
                              "TASK_KILLED"),
             {<<x[1], frameworkId, x[2]>> :
                x \in {y \in AllSlaveIds \X ExecutorIds :
                         Framework_hasExecutor(framework, y[1], y[2])}}),
           framework.offers, TRUE),
         framework.inverseOffers),
       frameworkId)

\* Master::addSlave(slave)
\* The executors the agent came with, as <<frameworkId, executorId>>.
Slave_executorKeys(slave) ==
  {k \in (DOMAIN slave.executors) \X ExecutorIds :
     k[2] \in DOMAIN slave.executors[k[1]]}

\* The executors of a new agent are added to their frameworks, those of
\* frameworks that are not registered are left with the agent alone.
RECURSIVE Master_addSlave_executors(_, _, _)
Master_addSlave_executors(registered, slave, keys) ==
  IF keys = {} THEN registered
  ELSE LET k == CHOOSE x \in keys : \A y \in keys :
                  x[1] < y[1] \/ (x[1] = y[1] /\ x[2] <= y[2])
       IN Master_addSlave_executors(
            IF k[1] \in DOMAIN registered
            THEN [registered EXCEPT ![k[1]] =
                    Framework_addExecutor(@, slave.id, k[2],
                                          slave.executors[k[1]][k[2]])]
            ELSE registered,
            slave, keys \ {k})

Master_addSlave(st, slave) ==
  IF Registered_contains_id(st.slaves.registered, slave.id) THEN Abort(st)
  ELSE IF \E k \in Slave_executorKeys(slave) :
            /\ k[1] \in DOMAIN st.frameworks.registered
            /\ ~Framework_addExecutor_CHECK(st.frameworks.registered[k[1]],
                                            slave.id, k[2])
  THEN Abort(st)
  ELSE [st EXCEPT
          !.slaves.removed = SelectSeq(@, LAMBDA x : x # slave.id),
          !.slaves.registered = Registered_put(@, slave),
          !.frameworks.registered =
            Master_addSlave_executors(@, slave, Slave_executorKeys(slave)),
          !.allocator = Allocator_addSlave(@, slave.id, slave.totalResources,
                                           slave.usedResources)]

\* Master::_registerSlave(slaveInfo, pid, checkpointedResources, version,
\* admit), admit one of "true", "false", "failed".
Master__registerSlave(st, op, admit) ==
  IF op.pid \notin st.slaves.registering THEN Abort(st)
  ELSE LET st1 == [st EXCEPT !.slaves.registering = @ \ {op.pid}]
       IN IF admit # "true" THEN st1
          ELSE IF ~Slave_Slave_CHECK(op.id, op.pid, Res(MaxCpus, 0),
                                     op.checkpointedResources, <<>>, <<>>)
          THEN Abort(st1)
          ELSE Master_addSlave(st1,
                 Slave_Slave(op.id, op.pid, Res(MaxCpus, 0),
                             op.checkpointedResources, <<>>, <<>>))

\* Master::removeSlave(slave, message, reason)
Master_removeSlave_Unmarked(st, slaveId) ==
  IF \/ slaveId \in st.slaves.removing
     \/ slaveId \in st.slaves.markingUnreachable
  THEN st
  ELSE [st EXCEPT
          !.registrar = Append(@, [type |-> "RemoveSlave", id |-> slaveId])]

Master_removeSlave(st, slaveId) ==
  IF \/ slaveId \in st.slaves.removing
     \/ slaveId \in st.slaves.markingUnreachable
  THEN st
  ELSE [st EXCEPT
          !.slaves.removing = @ \cup {slaveId},
          !.registrar = Append(@, [type |-> "RemoveSlave", id |-> slaveId])]

\* Master::registerSlave(from, slaveInfo, checkpointedResources, version):
\* a registration in flight for the address is a duplicate; an agent
\* registered at the address is told so again when it is connected and is
\* removed, for the new one, when it is not.
Master_registerSlave(st, from, checkpointedResources) ==
  IF from \in st.slaves.registering
  THEN [st EXCEPT !.hist.duplicates = @ \cup {from}]
  ELSE IF /\ Registered_get_pid(st.slaves.registered, from) # None
          /\ SlaveOf(st, Registered_get_pid(st.slaves.registered, from)).connected
  THEN st
  ELSE LET st1 == IF Registered_get_pid(st.slaves.registered, from) # None
                  THEN Master_removeSlave(
                         st, Registered_get_pid(st.slaves.registered, from))
                  ELSE st
           id == st1.nextIds.nextSlaveId
       IN [st1 EXCEPT
             !.nextIds.nextSlaveId = @ + 1,
             !.slaves.registering = @ \cup {from},
             !.registrar = Append(@,
               [type |-> "AdmitSlave", id |-> id, pid |-> from,
                checkpointedResources |-> checkpointedResources])]

\* The end of _removeSlave and _markUnreachable: the Slave leaves the
\* registered index, its id enters the removed cache.
Master_removeSlaveState_erase(st, slaveId) ==
  IF st.aborted THEN st
  ELSE [st EXCEPT
          !.slaves.registered = Registered_remove(@, SlaveOf(st, slaveId)),
          !.slaves.removed = Cache_put(@, slaveId, MaxRemovedSlaves)]

\* What _removeSlave and _markUnreachable do once the registry agrees: the
\* agent's tasks become `state` and are removed, then its executors and
\* offers, then the Slave itself.
Master_removeSlaveState(st, slaveId, state) ==
  LET slave == SlaveOf(st, slaveId)
  IN Master_removeSlaveState_erase(
       RemoveHeldInverseOffers(
         RemoveHeldOffers(
           RemoveExecutors(
             RemoveTasks(
               [st EXCEPT !.allocator = Allocator_removeSlave(@, slaveId)],
               {k \in AllFrameworkIds \X TaskIds :
                  MapContains(slave.tasks, k[1]) /\ k[2] \in slave.tasks[k[1]]},
               state),
             {x \in {slaveId} \X AllFrameworkIds \X ExecutorIds :
                Slave_hasExecutor(slave, x[2], x[3])}),
           slave.offers, FALSE),
         slave.inverseOffers),
       slaveId)

\* Master::_removeSlave(slave, registrarResult, removalCause, reason)
Master__removeSlave_Regardless(st, op, registrarResult) ==
  IF op.id \notin st.slaves.removing THEN Abort(st)
  ELSE Master_removeSlaveState(
         [st EXCEPT !.slaves.removing = @ \ {op.id}], op.id, "TASK_LOST")

Master__removeSlave(st, op, registrarResult) ==
  IF op.id \notin st.slaves.removing THEN Abort(st)
  ELSE LET st1 == [st EXCEPT !.slaves.removing = @ \ {op.id}]
       IN IF registrarResult # "true" THEN st1
          ELSE Master_removeSlaveState(st1, op.id, "TASK_LOST")

\* Master::disconnect(slave) and deactivate(slave), on the agent's socket
\* closing: the agent's offers are rescinded and recovered.
Master_disconnectSlave_Active(st, slaveId) ==
  LET st1 == SetSlave(st, [SlaveOf(st, slaveId) EXCEPT !.connected = FALSE])
  IN RemoveHeldOffers([st1 EXCEPT !.allocator.slaves = @ \ {slaveId}],
                      SlaveOf(st1, slaveId).offers, TRUE)

Master_disconnectSlave(st, slaveId) ==
  LET st1 == SetSlave(st, [SlaveOf(st, slaveId) EXCEPT !.connected = FALSE,
                                                       !.active = FALSE])
  IN RemoveHeldOffers([st1 EXCEPT !.allocator.slaves = @ \ {slaveId}],
                      SlaveOf(st1, slaveId).offers, TRUE)

\* Master::reregisterSlave of a registered agent: it is connected and
\* active again.
Master_reregisterKnownSlave(st, slaveId) ==
  [SetSlave(st, [SlaveOf(st, slaveId) EXCEPT !.connected = TRUE,
                                             !.active = TRUE])
     EXCEPT !.allocator.slaves = @ \cup {slaveId}]

\* The Future<Nothing> that Master::apply(slave, operation) returns: the
\* allocator's, failed when the allocator cannot apply the operation to what
\* is available on the agent.
Master_apply_future(st, slaveId, operation) ==
  IF Allocator_updateAvailable_ok(st.allocator, slaveId, operation)
  THEN "ready" ELSE "failed"

Master_apply_Unasked(st, slaveId, operation) ==
  [st EXCEPT
     !.allocator = Allocator_updateAvailable(@, slaveId, operation),
     !.pending = @ \cup {[type |-> "apply", slave_id |-> slaveId,
                          operation |-> operation, copy |-> 0]}]

\* Master::apply(slave, operation): the allocator is asked first.  The
\* calls in flight form a bag: `copy` tells equal ones apart.
Master_apply(st, slaveId, operation) ==
  IF Allocator_updateAvailable_ok(st.allocator, slaveId, operation)
  THEN LET same == {p \in st.pending :
                      /\ p.type = "apply"
                      /\ p.slave_id = slaveId
                      /\ p.operation = operation}
           copy == CHOOSE n \in 0..Cardinality(same) :
                     /\ \A p \in same : p.copy # n
                     /\ \A m \in 0..(n - 1) : \E p \in same : p.copy = m
       IN [st EXCEPT
             !.allocator = Allocator_updateAvailable(@, slaveId, operation),
             !.pending = @ \cup {[type |-> "apply", slave_id |-> slaveId,
                                  operation |-> operation, copy |-> copy]}]
  ELSE st

\* Master::_apply(slave, operation).  The Slave* was captured when the
\* allocator was asked: with the agent removed since, it dangles, and the
\* write either goes unnoticed (crashed = FALSE) or ends the process.
Master__apply(st, p, crashed) ==
  LET st0 == [st EXCEPT !.pending = @ \ {p}]
  IN IF Registered_get_id(st0.slaves.registered, p.slave_id) = None
     THEN IF crashed THEN Abort(st0) ELSE st0
     ELSE IF ~Slave_apply_CHECK(SlaveOf(st0, p.slave_id), p.operation)
     THEN Abort(st0)
     ELSE SetSlave(st0, Slave_apply(SlaveOf(st0, p.slave_id), p.operation))


(***************************************************************************)
(* Master: recovery after a failover.                                      *)
(***************************************************************************)
\* Master::_recover(registry): the admitted agents are awaited, the grace
\* timer for their re-registration is started.
Master_recover(st, reg) ==
  [st EXCEPT
     !.slaves.recovered = SeqIds(reg.slaves),
     !.slaves.unreachable = [i \in 1..Len(reg.unreachable) |-> reg.unreachable[i].id],
     !.slaves.recoveredTimer = "pending",
     !.hist.recovered = SeqIds(reg.slaves)]

\* Master::reregisterSlave(from, slaveInfo, checkpointedResources, ...)
Master_reregisterSlave(st, from, slaveId, checkpointedResources, executorInfos) ==
  IF slaveId \in st.slaves.markingUnreachable THEN st
  ELSE IF slaveId \in SeqIds(st.slaves.removed) THEN st
  ELSE IF Registered_get_id(st.slaves.registered, slaveId) # None
  THEN Master_reregisterKnownSlave(st, slaveId)
  ELSE IF slaveId \in st.slaves.reregistering THEN st
  ELSE [st EXCEPT
          !.slaves.reregistering = @ \cup {slaveId},
          !.hist.reregistrations = @ \cup {slaveId},
          !.registrar = Append(@,
            [type |-> "MarkSlaveReachable", id |-> slaveId, pid |-> from,
             checkpointedResources |-> checkpointedResources,
             executorInfos |-> executorInfos, tasks |-> <<>>])]

\* Master::_reregisterSlave(slaveInfo, pid, ..., readmit)
Master__reregisterSlave(st, op, readmit) ==
  IF op.id \notin st.slaves.reregistering THEN Abort(st)
  ELSE LET st1 == [st EXCEPT !.slaves.reregistering = @ \ {op.id}]
       IN IF readmit = "failed" THEN st1
          ELSE IF ~Slave_Slave_CHECK(op.id, op.pid, Res(MaxCpus, 0),
                                     op.checkpointedResources,
                                     op.executorInfos, op.tasks)
          THEN Abort(st1)
          ELSE Master_addSlave(
                 [st1 EXCEPT
                    !.slaves.recovered = @ \ {op.id},
                    !.slaves.unreachable = SelectSeq(@, LAMBDA x : x # op.id),
                    !.hist.readmittedInTime =
                      IF st.slaves.recoveredTimer = "pending"
                      THEN @ \cup {op.id} ELSE @],
                 Slave_Slave(op.id, op.pid, Res(MaxCpus, 0),
                             op.checkpointedResources, op.executorInfos,
                             op.tasks))

\* The loop of recoveredSlavesTimeout over the registry it was given: a
\* markUnreachableAfterFailover call is dispatched for every agent that is
\* still awaited.
RECURSIVE DispatchMarkUnreachable(_, _)
DispatchMarkUnreachable(st, ids) ==
  IF ids = {} THEN st
  ELSE LET id == CHOOSE x \in ids : \A y \in ids : x <= y
           st1 == IF id \in st.slaves.recovered
                  THEN [st EXCEPT !.pending = @ \cup
                          {[type |-> "markUnreachableAfterFailover", id |-> id]}]
                  ELSE st
       IN DispatchMarkUnreachable(st1, ids \ {id})

\* Master::recoveredSlavesTimeout(registry)
Master_recoveredSlavesTimeout(st) ==
  DispatchMarkUnreachable([st EXCEPT !.slaves.recoveredTimer = "fired"],
                          st.hist.recovered)

Master_markUnreachableAfterFailover_Unchecked(st, p, time) ==
  [st EXCEPT
     !.pending = @ \ {p},
     !.slaves.markingUnreachable = @ \cup {p.id},
     !.hist.markUnreachable[p.id] = IF @ < 2 THEN @ + 1 ELSE @,
     !.registrar = Append(@,
       [type |-> "MarkSlaveUnreachable", id |-> p.id, time |-> time,
                failover |-> TRUE])]

\* Master::markUnreachableAfterFailover(slave)
Master_markUnreachableAfterFailover(st, p, time) ==
  LET st0 == [st EXCEPT !.pending = @ \ {p}]
  IN IF p.id \notin st0.slaves.recovered THEN st0
     ELSE IF p.id \in st0.slaves.reregistering THEN st0
     ELSE [st0 EXCEPT
             !.slaves.markingUnreachable = @ \cup {p.id},
             !.hist.markUnreachable[p.id] = IF @ < 2 THEN @ + 1 ELSE @,
             !.registrar = Append(@,
               [type |-> "MarkSlaveUnreachable", id |-> p.id, time |-> time,
                failover |-> TRUE])]

\* Master::_markUnreachableAfterFailover(slaveInfo, registrarResult)
Master__markUnreachableAfterFailover(st, op, registrarResult) ==
  IF \/ op.id \notin st.slaves.markingUnreachable
     \/ op.id \notin st.slaves.recovered
  THEN Abort(st)
  ELSE LET st1 == [st EXCEPT !.slaves.markingUnreachable = @ \ {op.id}]
       IN IF registrarResult # "true" THEN st1
          ELSE [st1 EXCEPT !.slaves.recovered = @ \ {op.id}]

\* Master::reconcile(framework, reconcile), for one task the framework
\* names: the state answered, or "none" when the master stays silent.
Master_reconcile(st, frameworkId, slaveId, taskId) ==
  IF taskId \in FrameworkOf(st, frameworkId).tasks
  THEN st.tasks[<<frameworkId, taskId>>].state
  ELSE IF Slaves_transitioning(st.slaves, slaveId)
  THEN "none"
  ELSE "TASK_LOST"

\* The status updates sent for the queried statuses, in their order.
RECURSIVE Reconcile_updates(_, _, _)
Reconcile_updates(st, frameworkId, statuses) ==
  IF statuses = <<>> THEN <<>>
  ELSE LET status == Head(statuses)
           state == Master_reconcile(st, frameworkId, status.slave_id,
                                     status.task_id)
           rest == Reconcile_updates(st, frameworkId, Tail(statuses))
       IN IF state = "none" THEN rest
          ELSE <<[task_id |-> status.task_id, state |-> state]>> \o rest

\* Master::_reconcileTasks(framework, statuses): the status updates sent
\* to the framework; without statuses the state of every task of the
\* framework, with statuses what each of them gets.
Master__reconcileTasks(st, frameworkId, statuses) ==
  IF statuses = <<>>
  THEN Reconcile_updates(st, frameworkId,
         [i \in 1..Cardinality(FrameworkOf(st, frameworkId).tasks) |->
            [task_id |-> SetToSeq(FrameworkOf(st, frameworkId).tasks)[i],
             slave_id |-> None]])
  ELSE Reconcile_updates(st, frameworkId, statuses)

\* Master::reconcileTasks(from, frameworkId, statuses): nothing for a
\* framework that is not registered.  Sending leaves the master's tables
\* as they are; how many statuses were queried and how many updates were
\* sent is kept as history.
Master_reconcileTasks(st, frameworkId, statuses) ==
  IF Master_getFramework(st, frameworkId) = None THEN st
  ELSE [st EXCEPT !.hist.reconciled =
          [queried |-> Len(statuses),
           sent |-> Len(Master__reconcileTasks(st, frameworkId, statuses))]]

(***************************************************************************)
(* The registrar: the operation at the head of its queue is performed on   *)
(* the registry, and the master's continuation runs with the result:       *)
(* "true" or "false" as perform returned, "failed" when perform returned   *)
(* an error or the registry could not be stored.                           *)
(***************************************************************************)
Registrar_perform(op, reg, ids) ==
  CASE op.type = "AdmitSlave" -> {AdmitSlave_perform(reg, ids, op.id)}
    [] op.type = "RemoveSlave" -> {RemoveSlave_perform(reg, ids, op.id)}
    [] op.type = "MarkSlaveUnreachable" ->
         {MarkSlaveUnreachable_perform(reg, ids, op.id, op.time)}
    [] op.type = "MarkSlaveReachable" ->
         {MarkSlaveReachable_perform(reg, ids, op.id)}
    [] op.type = "PruneUnreachable" ->
         PruneUnreachable_perform(reg, ids, op.toRemove)

Registrar_future(out, storeFailed) ==
  IF storeFailed \/ out.result = "error" THEN "failed" ELSE out.result

\* The continuation the master attached to the operation.
\* Master::markUnreachable(slaveId): the agent's health check timed out.
\* Nothing is done for an agent that is not registered, or that is being
\* marked unreachable or removed; otherwise the registry is asked to mark
\* the agent unreachable.
Master_markUnreachable(st, slaveId, time) ==
  IF Registered_get_id(st.slaves.registered, slaveId) = None THEN st
  ELSE IF slaveId \in st.slaves.markingUnreachable THEN st
  ELSE IF slaveId \in st.slaves.removing THEN st
  ELSE [st EXCEPT
          !.slaves.markingUnreachable = @ \cup {slaveId},
          !.registrar = Append(@,
            [type |-> "MarkSlaveUnreachable", id |-> slaveId, time |-> time,
             failover |-> FALSE])]

\* Master::_markUnreachable(slave, unreachableTime, registrarResult): on
\* success the agent enters the unreachable list, its tasks become
\* unreachable and are removed, its executors are removed, its offers are
\* rescinded, and the agent leaves the registered index for the removed
\* cache.  The Slave* is the one markUnreachable captured.
Master__markUnreachable(st, op, registrarResult) ==
  IF op.id \notin st.slaves.markingUnreachable THEN Abort(st)
  ELSE LET st1 == [st EXCEPT !.slaves.markingUnreachable = @ \ {op.id}]
       IN IF registrarResult # "true" THEN st1
          ELSE IF \/ Registered_get_id(st1.slaves.registered, op.id) = None
                  \/ op.id \in SeqIds(st1.slaves.unreachable)
          THEN Abort(st1)
          ELSE Master_removeSlaveState(
                 [st1 EXCEPT !.slaves.unreachable = Append(@, op.id)],
                 op.id, "TASK_UNREACHABLE")

\* Master::exited / Master::disconnect(framework): the framework is
\* disconnected and deactivated, its offers are rescinded, and the failover
\* timer is armed with the framework's reregisteredTime.  `epoch` is
\* history: the re-registrations of the framework so far.
Master_disconnect_framework(st, frameworkId) ==
  LET framework == FrameworkOf(st, frameworkId)
  IN IF Master_getFramework(st, frameworkId) = None \/ ~framework.connected
     THEN st
     ELSE LET st1 == SetFramework(
                       [st EXCEPT !.allocator =
                          Allocator_deactivateFramework(@, frameworkId)],
                       [framework EXCEPT !.connected = FALSE,
                                         !.active = FALSE])
              st2 == RemoveHeldOffers(st1, framework.offers, TRUE)
          IN IF st2.aborted THEN st2
             ELSE [st2 EXCEPT !.pending = @ \cup
                     {[type |-> "frameworkFailoverTimeout",
                       framework_id |-> frameworkId,
                       reregisteredTime |-> framework.reregisteredTime,
                       epoch |-> st.hist.epochs[frameworkId]]}]

\* Master::subscribe for a framework that is registered: the scheduler
\* re-registers at time `now` and is activated in the allocator.
Master_resubscribe(st, frameworkId, now) ==
  IF Master_getFramework(st, frameworkId) = None THEN st
  ELSE SetFramework(
         [st EXCEPT !.hist.clock = now,
                    !.hist.epochs[frameworkId] = @ + 1,
                    !.allocator = Allocator_addFramework(@, frameworkId)],
         [FrameworkOf(st, frameworkId) EXCEPT
            !.reregisteredTime = now,
            !.connected = TRUE,
            !.active = TRUE])

Master_frameworkFailoverTimeout_AnyTime(st, p) ==
  LET st0 == [st EXCEPT !.pending = @ \ {p}]
  IN IF /\ Master_getFramework(st0, p.framework_id) # None
        /\ ~FrameworkOf(st0, p.framework_id).connected
     THEN Master_removeFramework(st0, p.framework_id)
     ELSE st0

\* Master::frameworkFailoverTimeout(frameworkId, reregisteredTime): the
\* framework is removed when it is still disconnected and has not
\* re-registered since the timer was armed.
Master_frameworkFailoverTimeout(st, p) ==
  LET st0 == [st EXCEPT !.pending = @ \ {p}]
      framework == FrameworkOf(st0, p.framework_id)
  IN IF /\ Master_getFramework(st0, p.framework_id) # None
        /\ ~framework.connected
        /\ framework.reregisteredTime = p.reregisteredTime
     THEN Master_removeFramework(st0, p.framework_id)
     ELSE st0

Master_continuation(st, op, future) ==
  CASE op.type = "AdmitSlave" -> Master__registerSlave(st, op, future)
    [] op.type = "RemoveSlave" -> Master__removeSlave(st, op, future)
    [] op.type = "MarkSlaveReachable" -> Master__reregisterSlave(st, op, future)
    [] op.type = "MarkSlaveUnreachable" ->
         IF op.failover
         THEN Master__markUnreachableAfterFailover(st, op, future)
         ELSE Master__markUnreachable(st, op, future)
    [] OTHER -> st

RegistrarApply ==
  /\ ~aborted
  /\ registrar # <<>>
  /\ \E storeFailed \in BOOLEAN :
       \E out \in Registrar_perform(Head(registrar), registry, slaveIDs) :
         LET op == Head(registrar)
             future == Registrar_future(out, storeFailed)
             st == [State EXCEPT !.registrar = Tail(@)]
         IN /\ registry' = IF future = "true" THEN out.registry ELSE registry
            /\ slaveIDs' = IF future = "true" THEN out.slaveIDs ELSE slaveIDs
            /\ Commit(IF out.result = "abort" THEN Abort(st)
                      ELSE Master_continuation(st, op, future))
            /\ UNCHANGED regOp

(***************************************************************************)
(* The events the master serializes, one action each.                      *)
(***************************************************************************)
Handle(st) == Commit(st) /\ UNCHANGED registryVars

\* The agent and framework ids messages can name: the ones handed out.
IssuedSlaveIds == {s \in SlaveIds : s < nextIds.nextSlaveId}

IssuedFrameworkIds == {f \in FrameworkIds : f < nextIds.nextFrameworkId}

\* An agent at one of the addresses `pids` registers; the master has handed
\* out fewer than maxSlaves agent ids.
RegisterSlave(pids, maxSlaves) ==
  /\ ~aborted
  /\ nextIds.nextSlaveId <= maxSlaves
  /\ Len(registrar) + 1 < MaxRegistryQueue
  /\ \E from \in pids : Handle(Master_registerSlave(State, from, RZero))

SubscribePid(pids) ==
  /\ ~aborted
  /\ nextIds.nextFrameworkId <= MaxFrameworks
  /\ \E pid \in pids : Handle(Master_subscribe_pid(State, pid))

\* The allocator allocates resources that are available on an active agent
\* to an active framework and hands them to Master::offer.
Offer ==
  /\ ~aborted
  /\ nextIds.nextOfferId < MaxOffers
  /\ \E f \in allocator.frameworks, s \in allocator.slaves :
       \E u \in 0..MaxCpus, r \in 0..MaxCpus :
         /\ ~REmpty(Res(u, r))
         /\ RContains(Allocator_available(allocator, s), Res(u, r))
         /\ Handle(Master_offer(
              [State EXCEPT !.allocator.allocated[<<f, s>>] = RAdd(@, Res(u, r))],
              f, s, Res(u, r)))

\* The allocator asks an active framework to release the resources of an
\* active agent, and hands the request to Master::inverseOffer.
InverseOffer ==
  /\ ~aborted
  /\ nextIds.nextOfferId < MaxOffers
  /\ \E f \in allocator.frameworks, s \in allocator.slaves :
       Handle(Master_inverseOffer(State, f, s))

\* A scheduler's Accept call, its operation list one of operationLists.
Accept(operationLists) ==
  /\ ~aborted
  /\ Cardinality(pending) < MaxPending
  /\ \E f \in DOMAIN frameworks.registered, ids \in SUBSET OfferIds,
        operations \in operationLists :
       Handle(Master_accept(State, f, ids, operations))

AcceptAuthorized ==
  /\ ~aborted
  /\ \E p \in pending :
       /\ p.type = "accept"
       /\ \E authorized \in [1..Len(p.operations) -> BOOLEAN] :
            Handle(Master__accept(State, p, authorized))

Decline ==
  /\ ~aborted
  /\ \E f \in DOMAIN frameworks.registered, ids \in SUBSET OfferIds :
       Handle(Master_decline(State, f, ids))

\* An offer's timer fires; a timer that was cancelled too late fires for an
\* offer that is gone.
OfferTimeout ==
  /\ ~aborted
  /\ \E id \in OfferIds :
       /\ id < nextIds.nextOfferId
       /\ Handle(Master_offerTimeout(State, id))

StatusUpdate ==
  /\ ~aborted
  /\ \E s \in IssuedSlaveIds, f \in IssuedFrameworkIds, t \in TaskIds,
        state \in {"TASK_RUNNING", "TASK_FINISHED", "TASK_FAILED"},
        acknowledged \in BOOLEAN :
       Handle(Master_statusUpdate(State, s, f, t, state, acknowledged))

Acknowledge ==
  /\ ~aborted
  /\ \E f \in DOMAIN frameworks.registered, s \in IssuedSlaveIds,
        t \in TaskIds :
       Handle(Master_acknowledge(State, f, s, t))

ExitedExecutor ==
  /\ ~aborted
  /\ \E s \in IssuedSlaveIds, f \in IssuedFrameworkIds, e \in ExecutorIds :
       Handle(Master_exitedExecutor(State, s, f, e))

RemoveFramework ==
  /\ ~aborted
  /\ \E f \in DOMAIN frameworks.registered :
       Handle(Master_removeFramework(State, f))

MarkUnreachable ==
  /\ ~aborted
  /\ Len(registrar) < MaxRegistryQueue
  /\ \E s \in IssuedSlaveIds, time \in Times :
       Handle(Master_markUnreachable(State, s, time))

\* An unreachable agent re-registers and reports one of the executor
\* lists `lists`.
ReregisterUnreachableSlave(lists) ==
  /\ ~aborted
  /\ Len(registrar) < MaxRegistryQueue
  /\ \E id \in SeqIds(slaves.unreachable), executorInfos \in lists :
       Handle(Master_reregisterSlave(State, id, id, RZero, executorInfos))

DisconnectFramework ==
  /\ ~aborted
  /\ \E f \in DOMAIN frameworks.registered :
       /\ frameworks.registered[f].connected
       /\ Handle(Master_disconnect_framework(State, f))

ResubscribeFramework ==
  /\ ~aborted
  /\ \E f \in DOMAIN frameworks.registered, now \in 1..MaxClock :
       /\ now > hist.clock
       /\ Handle(Master_resubscribe(State, f, now))

FrameworkFailoverTimeout ==
  /\ ~aborted
  /\ \E p \in pending :
       /\ p.type = "frameworkFailoverTimeout"
       /\ Handle(Master_frameworkFailoverTimeout(State, p))

RemoveSlave ==
  /\ ~aborted
  /\ Len(registrar) < MaxRegistryQueue
  /\ \E s \in DOMAIN slaves.registered.ids : Handle(Master_removeSlave(State, s))

DisconnectSlave ==
  /\ ~aborted
  /\ \E s \in DOMAIN slaves.registered.ids :
       /\ slaves.registered.ids[s].connected
       /\ Handle(Master_disconnectSlave(State, s))

ReregisterKnownSlave ==
  /\ ~aborted
  /\ \E s \in DOMAIN slaves.registered.ids :
       /\ ~slaves.registered.ids[s].connected
       /\ Handle(Master_reregisterKnownSlave(State, s))

\* An operator's request for one of `operations` on a registered agent.
ApplyOperation(operations) ==
  /\ ~aborted
  /\ Cardinality(pending) < MaxPending
  /\ \E s \in DOMAIN slaves.registered.ids, operation \in operations :
       Handle(Master_apply(State, s, operation))

ApplyCompletes ==
  /\ ~aborted
  /\ \E p \in pending :
       /\ p.type = "apply"
       /\ \E crashed \in BOOLEAN : Handle(Master__apply(State, p, crashed))

\* The master as constructed: no agent, no framework, an empty registry.
\* The capacities of the history containers: MinCapacity, the smallest
\* that keeps a history, and HistoryCapacity, at which the order of
\* eviction shows.
MinCapacity == 1
HistoryCapacity == 2

Flags(capacity) ==
  [max_completed_tasks_per_framework |-> capacity,
   max_completed_frameworks |-> capacity,
   max_removed_slaves |-> capacity]

InitMasterWith(capacity) ==
  /\ flags = Flags(capacity)
  /\ slaves = EmptySlaves
  /\ frameworks = [registered |-> EmptyMap, completed |-> <<>>]
  /\ offers = EmptyMap
  /\ offerTimers = {}
  /\ inverseOffers = EmptyMap
  /\ inverseOfferTimers = {}
  /\ tasks = EmptyMap
  /\ nextIds = [nextFrameworkId |-> 1, nextOfferId |-> 0, nextSlaveId |-> 1]
  /\ registrar = <<>>
  /\ pending = {}
  /\ allocator = EmptyAllocator
  /\ http = [nextStreamId |-> 1, closed |-> {}, waiting |-> <<>>,
             heartbeats |-> {}]
  /\ aborted = FALSE
  /\ hist = [markUnreachable |-> [s \in AllSlaveIds |-> 0],
             recovered |-> {}, readmittedInTime |-> {},
             reregistrations |-> {}, duplicates |-> {},
             clock |-> 0, epochs |-> [f \in AllFrameworkIds |-> 0],
             reconciled |-> [queried |-> 0, sent |-> 0]]
  /\ regOp = [type |-> "none"]
  /\ activeRoles = EmptyMap

InitMaster == InitMasterWith(MinCapacity)

\* The master started with history containers of HistoryCapacity entries.
InitHistory ==
  /\ InitMasterWith(HistoryCapacity)
  /\ registry = EmptyRegistry
  /\ slaveIDs = {}

(***************************************************************************)
(* Spec: tasks, executors and offers of MaxFrameworks frameworks on        *)
(* MaxTaskSlaves agents.                                                   *)
(***************************************************************************)
Init ==
  /\ InitMaster
  /\ registry = EmptyRegistry
  /\ slaveIDs = {}

Next ==
  \/ RegisterSlave({1}, MaxTaskSlaves)
  \/ RegistrarApply
  \/ SubscribePid({1})
  \/ Offer
  \/ Accept(LaunchOperations \cup ReserveOperationLists)
  \/ AcceptAuthorized
  \/ Decline
  \/ OfferTimeout
  \/ StatusUpdate
  \/ Acknowledge
  \/ ExitedExecutor
  \/ RemoveFramework
  \/ RemoveSlave
  \/ DisconnectSlave
  \/ ReregisterKnownSlave
  \/ ApplyOperation(ReserveOperations)
  \/ ApplyCompletes

Spec == Init /\ [][Next]_vars

(***************************************************************************)
(* SpecOffers: offers of MaxSlaves agents to MaxFrameworks frameworks; no  *)
(* task is launched.                                                       *)
(***************************************************************************)
NextOffers ==
  \/ RegisterSlave(Pids, MaxSlaves)
  \/ RegistrarApply
  \/ SubscribePid({1})
  \/ Offer
  \/ Accept({<<>>})
  \/ AcceptAuthorized
  \/ Decline
  \/ OfferTimeout
  \/ RemoveFramework
  \/ RemoveSlave
  \/ DisconnectSlave
  \/ ReregisterKnownSlave

SpecOffers == Init /\ [][NextOffers]_vars

(***************************************************************************)
(* SpecRegister: agents register from two addresses, and may repeat their  *)
(* registration while the registrar has not answered the first.            *)
(***************************************************************************)
RegisterSlaveAgain ==
  /\ ~aborted
  /\ \E from \in slaves.registering :
       Handle(Master_registerSlave(State, from, RZero))

NextRegister ==
  \/ RegisterSlave(Pids, MaxSlaves)
  \/ RegisterSlaveAgain
  \/ RegistrarApply
  \/ RemoveSlave
  \/ DisconnectSlave
  \/ ReregisterKnownSlave

SpecRegister == Init /\ [][NextRegister]_vars

AdmitsQueued(st, pid) ==
  {i \in DOMAIN st.registrar :
     st.registrar[i].type = "AdmitSlave" /\ st.registrar[i].pid = pid}

\* C6: while a registration for an address is in flight, exactly one
\* AdmitSlave operation for the address is queued and its agent does not
\* exist yet; a second registration from the address issues no operation,
\* hands out no id and creates nothing; when the registry admits, the one
\* agent is created, registered under the queued id and at the address.
InFlightDedup ==
  \A pid \in slaves.registering :
    /\ Cardinality(AdmitsQueued(State, pid)) = 1
    /\ LET op == registrar[CHOOSE i \in AdmitsQueued(State, pid) : TRUE]
           again == Master_registerSlave(State, pid, RZero)
           admitted == Master__registerSlave(State, op, "true")
       IN /\ ~Registered_contains_id(slaves.registered, op.id)
          /\ again.registrar = registrar
          /\ again.nextIds = nextIds
          /\ again.slaves = slaves
          /\ again.allocator = allocator
          /\ ~admitted.aborted
          /\ DOMAIN admitted.slaves.registered.ids
               = DOMAIN slaves.registered.ids \cup {op.id}
          /\ Registered_get_pid(admitted.slaves.registered, pid) = op.id
          /\ pid \notin admitted.slaves.registering

\* C6 witness: a second registration from an address was dropped while the
\* first was in flight, and the first has created the agent at the address.
InFlightDedupWitness ==
  \E pid \in hist.duplicates :
    /\ pid \notin slaves.registering
    /\ Registered_get_pid(slaves.registered, pid) # None

(***************************************************************************)
(* Properties of the accounting.                                           *)
(***************************************************************************)
\* No registry, authorizer or allocator call is outstanding.
Quiescent == pending = {} /\ registrar = <<>>

RegisteredSlaveIds == DOMAIN slaves.registered.ids

RegisteredFrameworkIds == DOMAIN frameworks.registered

\* The resources framework f holds on agent s through what is live there:
\* its tasks that are not terminal, and its executors.
LiveTaskResources(s, f) ==
  LET keys == {k \in DOMAIN tasks :
                 /\ tasks[k].framework_id = f
                 /\ tasks[k].slave_id = s
                 /\ ~isTerminalState(tasks[k].state)}
  IN RSum([k \in keys |-> tasks[k].resources], keys)

LiveExecutorResources(s, f) ==
  LET executors == MapGetOr(slaves.registered.ids[s].executors, f, EmptyMap)
  IN RSum(executors, DOMAIN executors)

LiveResources(s, f) ==
  IF s \in RegisteredSlaveIds
  THEN RAdd(LiveTaskResources(s, f), LiveExecutorResources(s, f))
  ELSE RZero

\* C1: in every quiescent state, on every registered agent, the resources
\* used by all frameworks together with the resources offered are contained
\* in the agent's total resources.
ResourceConservation ==
  Quiescent =>
    \A s \in RegisteredSlaveIds :
      LET slave == slaves.registered.ids[s]
      IN RContains(slave.totalResources,
                   RAdd(RSum(slave.usedResources, DOMAIN slave.usedResources),
                        slave.offeredResources))

\* C1 witness: a quiescent state in which an agent's total is exactly taken
\* up by what one framework uses and what is offered.
ResourceConservationWitness ==
  /\ Quiescent
  /\ \E s \in RegisteredSlaveIds :
       LET slave == slaves.registered.ids[s]
       IN /\ ~REmpty(slave.offeredResources)
          /\ \E f \in DOMAIN slave.usedResources :
               ~REmpty(slave.usedResources[f])
          /\ slave.totalResources =
               RAdd(RSum(slave.usedResources, DOMAIN slave.usedResources),
                    slave.offeredResources)

\* C2: Slave::taskTerminated and Framework::taskTerminated have run once
\* for a task that is terminal and never for one that is not, however many
\* terminal updates were applied; so the used resources of every agent and
\* of every framework are exactly those of the live tasks and executors.
AtMostOneTerminalTransition ==
  /\ \A k \in DOMAIN tasks :
       tasks[k].terminations = IF isTerminalState(tasks[k].state) THEN 1 ELSE 0
  /\ \A s \in RegisteredSlaveIds, f \in FrameworkIds :
       MapGetOr(slaves.registered.ids[s].usedResources, f, RZero)
         = LiveResources(s, f)
  /\ \A f \in RegisteredFrameworkIds :
       /\ \A s \in SlaveIds :
            MapGetOr(frameworks.registered[f].usedResources, s, RZero)
              = LiveResources(s, f)
       /\ frameworks.registered[f].totalUsedResources
            = RSum([s \in SlaveIds |-> LiveResources(s, f)], SlaveIds)

\* C2 witness: a second terminal update was applied to a task.
AtMostOneTerminalTransitionWitness ==
  \E k \in DOMAIN tasks :
    /\ tasks[k].terminalUpdates = 2
    /\ tasks[k].terminations = 1
    /\ tasks[k].framework_id \in RegisteredFrameworkIds

(***************************************************************************)
(* Properties of the offer tables.                                         *)
(***************************************************************************)
SlavesHolding(offerId) ==
  {s \in RegisteredSlaveIds : offerId \in slaves.registered.ids[s].offers}

FrameworksHolding(offerId) ==
  {f \in RegisteredFrameworkIds : offerId \in frameworks.registered[f].offers}

\* C3: an offer in the master's offer table is in the offer set of exactly
\* the agent and exactly the framework it names; an offer that is not in
\* the table is in no agent's and no framework's offer set.
OfferIndexConsistency ==
  \A id \in OfferIds :
    IF MapContains(offers, id)
    THEN /\ SlavesHolding(id) = {offers[id].slave_id}
         /\ FrameworksHolding(id) = {offers[id].framework_id}
    ELSE /\ SlavesHolding(id) = {}
         /\ FrameworksHolding(id) = {}

\* C3 witness: offers of two agents to two frameworks are outstanding.
OfferIndexConsistencyWitness ==
  \E i, j \in DOMAIN offers :
    /\ offers[i].slave_id # offers[j].slave_id
    /\ offers[i].framework_id # offers[j].framework_id
    /\ SlavesHolding(i) # SlavesHolding(j)

\* C4: a timeout, a decline or an accept that names an offer id that is
\* not (or no longer) in the offer table changes nothing; no timeout,
\* decline, accept or disconnection fails a CHECK, whatever offers it
\* names or finds held.
IdempotentRescission ==
  ~aborted =>
    /\ \A id \in OfferIds :
         Master_getOffer(State, id) = None =>
           /\ Master_offerTimeout(State, id) = State
           /\ \A f \in RegisteredFrameworkIds :
                /\ Master_decline(State, f, {id}) = State
                /\ Master_accept(State, f, {id}, <<>>) = State
    /\ \A id \in OfferIds : ~Master_offerTimeout(State, id).aborted
    /\ \A f \in RegisteredFrameworkIds, ids \in SUBSET OfferIds :
         /\ ~Master_decline(State, f, ids).aborted
         /\ ~Master_accept(State, f, ids, <<>>).aborted
    /\ \A s \in RegisteredSlaveIds : ~Master_disconnectSlave(State, s).aborted

\* C4 witness: an offer was removed while another is outstanding, so that
\* both an id that is gone and an id that is held can be named.
IdempotentRescissionWitness ==
  /\ ~aborted
  /\ RegisteredFrameworkIds # {}
  /\ \E id \in OfferIds :
       /\ id < nextIds.nextOfferId
       /\ Master_getOffer(State, id) = None
  /\ \E id \in OfferIds : Master_getOffer(State, id) # None

(***************************************************************************)
(* The accept scenario: an offer of all of an agent's resources is         *)
(* accepted with one task launched, and the task then finishes.            *)
(***************************************************************************)
\* The offers that hold all the resources of a connected agent, while no
\* authorization is outstanding.
WholeAgentOffers ==
  {id \in DOMAIN offers :
     /\ pending = {}
     /\ offers[id].slave_id \in RegisteredSlaveIds
     /\ offers[id].framework_id \in RegisteredFrameworkIds
     /\ slaves.registered.ids[offers[id].slave_id].connected
     /\ offers[id].resources =
          slaves.registered.ids[offers[id].slave_id].totalResources}

\* What launching `task` takes from an offer: its resources and those of
\* the executor it names.
LaunchResources(task) ==
  IF task.executor_id # None
  THEN RAdd(task.resources, task.executor_resources)
  ELSE task.resources

\* What stays in use once the task is terminal: the executor.
ExecutorOnlyResources(task) ==
  IF task.executor_id # None THEN task.executor_resources ELSE RZero

\* The state after framework f accepted offer id launching `task`, all of
\* it authorized.
AfterAccept(id, task) ==
  LET accepted == Master_accept(State, offers[id].framework_id, {id},
                                <<[type |-> "LAUNCH", task |-> task]>>)
  IN Master__accept(accepted, CHOOSE p \in accepted.pending : TRUE, <<TRUE>>)

\* C9 as stated: the launch of a task that uses R leaves R in use by F on
\* A, and the finished task leaves nothing in use, on both sides.  It
\* fails for a task that names an executor: the launch starts the executor
\* on the agent, whose resources are in use beside the task's and stay in
\* use when the task has finished.
AcceptAccountingAsStated ==
  ~aborted =>
    \A id \in WholeAgentOffers, task \in TaskInfos :
      LET a == offers[id].slave_id
          f == offers[id].framework_id
          R == task.resources
          launched == AfterAccept(id, task)
      IN (/\ RContains(offers[id].resources, LaunchResources(task))
          /\ task.task_id \notin frameworks.registered[f].tasks)
         =>
         /\ ~launched.aborted
         /\ MapGetOr(SlaveOf(launched, a).usedResources, f, RZero) = R
         /\ SlaveOf(launched, a).totalResources
              = slaves.registered.ids[a].totalResources
         /\ SlaveOf(launched, a).offers = {}
         /\ \A o \in DOMAIN launched.offers : launched.offers[o].slave_id # a
         /\ \A acknowledged \in BOOLEAN :
              LET finished == Master_statusUpdate(launched, a, f, task.task_id,
                                                  "TASK_FINISHED", acknowledged)
              IN /\ ~finished.aborted
                 /\ MapGetOr(SlaveOf(finished, a).usedResources, f, RZero)
                      = RZero
                 /\ MapGetOr(FrameworkOf(finished, f).usedResources, a, RZero)
                      = RZero

\* C9: after a framework F accepted an offer of all of agent A's resources
\* and launched a task that fits, A's usedResources[F] (and F's
\* usedResources[A]) is the task's resources together with those of the
\* executor the task names, A's totalResources is unchanged and no offer of
\* A remains; after the task finished, what F uses on A is on both sides
\* the executor's resources, which is nothing for a task without executor.
AcceptAccounting ==
  ~aborted =>
    \A id \in WholeAgentOffers, task \in TaskInfos :
      LET a == offers[id].slave_id
          f == offers[id].framework_id
          R == LaunchResources(task)
          launched == AfterAccept(id, task)
      IN (/\ RContains(offers[id].resources, R)
          /\ task.task_id \notin frameworks.registered[f].tasks)
         =>
         /\ ~launched.aborted
         /\ MapGetOr(SlaveOf(launched, a).usedResources, f, RZero) = R
         /\ MapGetOr(FrameworkOf(launched, f).usedResources, a, RZero) = R
         /\ SlaveOf(launched, a).totalResources
              = slaves.registered.ids[a].totalResources
         /\ SlaveOf(launched, a).offers = {}
         /\ \A o \in DOMAIN launched.offers : launched.offers[o].slave_id # a
         /\ \A acknowledged \in BOOLEAN :
              LET finished == Master_statusUpdate(launched, a, f, task.task_id,
                                                  "TASK_FINISHED", acknowledged)
              IN /\ ~finished.aborted
                 /\ MapGetOr(SlaveOf(finished, a).usedResources, f, RZero)
                      = ExecutorOnlyResources(task)
                 /\ MapGetOr(FrameworkOf(finished, f).usedResources, a, RZero)
                      = ExecutorOnlyResources(task)
                 /\ FrameworkOf(finished, f).totalUsedResources
                      = RAdd(frameworks.registered[f].totalUsedResources,
                             ExecutorOnlyResources(task))

\* C9 witness: a framework holds an offer of all of an agent's resources
\* and has no task yet.  A task without executor that it launches takes
\* the task's resources and leaves nothing in use when finished; a task
\* that names an executor takes the executor's resources as well, and these
\* stay in use when the task has finished.
AcceptAccountingWitness ==
  /\ ~aborted
  /\ \E id \in WholeAgentOffers :
       LET a == offers[id].slave_id
           f == offers[id].framework_id
       IN /\ frameworks.registered[f].tasks = {}
          /\ \E task \in TaskInfos :
               /\ task.executor_id = None
               /\ RContains(offers[id].resources, LaunchResources(task))
               /\ MapGetOr(SlaveOf(AfterAccept(id, task), a).usedResources,
                           f, RZero) = task.resources
               /\ MapGetOr(SlaveOf(Master_statusUpdate(
                                     AfterAccept(id, task), a, f,
                                     task.task_id, "TASK_FINISHED", TRUE),
                                   a).usedResources, f, RZero) = RZero
          /\ \E task \in TaskInfos :
               /\ task.executor_id # None
               /\ ~REmpty(task.executor_resources)
               /\ RContains(offers[id].resources, LaunchResources(task))
               /\ MapGetOr(SlaveOf(AfterAccept(id, task), a).usedResources,
                           f, RZero)
                    = RAdd(task.resources, task.executor_resources)
               /\ MapGetOr(SlaveOf(Master_statusUpdate(
                                     AfterAccept(id, task), a, f,
                                     task.task_id, "TASK_FINISHED", TRUE),
                                   a).usedResources, f, RZero)
                    = task.executor_resources

(***************************************************************************)
(* SpecRegistry: the registrar operations performed, in any order and with *)
(* any arguments, on a registry that starts empty.  regOp records the      *)
(* operation performed last, the registry and the accumulator it was       *)
(* given, and its result; registry and slaveIDs are what perform left.     *)
(***************************************************************************)
masterVars == <<slaves, frameworks, offers, offerTimers, tasks, nextIds,
                registrar, pending, allocator, http, hist, activeRoles,
                inverseOffers, inverseOfferTimers, flags>>

Performed(op, out) ==
  /\ Len(out.registry.slaves) + Len(out.registry.unreachable) <= MaxRegistryLen
  /\ registry' = out.registry
  /\ slaveIDs' = out.slaveIDs
  /\ regOp' = [type |-> op.type, op |-> op, result |-> out.result,
               registry |-> registry, slaveIDs |-> slaveIDs]
  /\ aborted' = (out.result = "abort")
  /\ UNCHANGED masterVars

PerformAdmitSlave ==
  /\ ~aborted
  /\ \E id \in RegistryIds :
       Performed([type |-> "AdmitSlave", id |-> id],
                 AdmitSlave_perform(registry, slaveIDs, id))

PerformMarkSlaveUnreachable ==
  /\ ~aborted
  /\ \E id \in RegistryIds, time \in Times :
       Performed([type |-> "MarkSlaveUnreachable", id |-> id, time |-> time],
                 MarkSlaveUnreachable_perform(registry, slaveIDs, id, time))

PerformMarkSlaveReachable ==
  /\ ~aborted
  /\ \E id \in RegistryIds :
       Performed([type |-> "MarkSlaveReachable", id |-> id],
                 MarkSlaveReachable_perform(registry, slaveIDs, id))

PerformPruneUnreachable ==
  /\ ~aborted
  /\ \E toRemove \in SUBSET RegistryIds :
       \E out \in PruneUnreachable_perform(registry, slaveIDs, toRemove) :
         Performed([type |-> "PruneUnreachable", toRemove |-> toRemove], out)

PerformRemoveSlave ==
  /\ ~aborted
  /\ \E id \in RegistryIds :
       Performed([type |-> "RemoveSlave", id |-> id],
                 RemoveSlave_perform(registry, slaveIDs, id))

NextRegistry ==
  \/ PerformAdmitSlave
  \/ PerformMarkSlaveUnreachable
  \/ PerformMarkSlaveReachable
  \/ PerformPruneUnreachable
  \/ PerformRemoveSlave

SpecRegistry == Init /\ [][NextRegistry]_vars

\* C8 as claimed: every operation performed either changed the registry
\* and returned success, or returned an error and left the registry and
\* the admitted-ID set as they were.
MutatesOrFails ==
  regOp.type # "none" /\ regOp.result # "abort" =>
    \/ /\ regOp.result = "true"
       /\ registry # regOp.registry
    \/ /\ regOp.result = "error"
       /\ registry = regOp.registry
       /\ slaveIDs = regOp.slaveIDs

\* C8, corrected: an operation that returned true (mutation) changed the
\* registry; one that returned false (no mutation) or an error left the
\* registry and the admitted-ID set as they were; AdmitSlave,
\* MarkSlaveUnreachable and RemoveSlave return true or an error, and only
\* MarkSlaveReachable and PruneUnreachable return false.
RegistryOperationOutcomes ==
  regOp.type # "none" /\ regOp.result # "abort" =>
    /\ regOp.result \in {"true", "false", "error"}
    /\ regOp.result = "true" => registry # regOp.registry
    /\ regOp.result \in {"false", "error"} =>
         /\ registry = regOp.registry
         /\ slaveIDs = regOp.slaveIDs
    /\ regOp.result = "false" =>
         regOp.type \in {"MarkSlaveReachable", "PruneUnreachable"}

\* C8 witness: MarkSlaveReachable of an admitted agent returned false, on
\* a registry that also lists an unreachable agent.
RegistryOperationOutcomesWitness ==
  /\ regOp.type = "MarkSlaveReachable"
  /\ regOp.result = "false"
  /\ regOp.op.id \in slaveIDs
  /\ registry.unreachable # <<>>

\* What the master's handlers do with the connection of a Framework: a
\* subscription over HTTP constructs it and starts its heartbeat; a
\* failover replaces the connection, marks the framework connected and
\* active and, over HTTP, starts the heartbeat.
Master_subscribe_http(id, role, newHttp) ==
  Framework_heartbeat(Framework_Framework(id, role, None, newHttp, 0))

Master_failoverFramework_pid_CHECK(framework, newPid) ==
  Framework_updateConnection_pid_CHECK(framework, newPid)

Master_failoverFramework_pid(framework, newPid) ==
  [Framework_updateConnection_pid(framework, newPid)
     EXCEPT !.connected = TRUE, !.active = TRUE]

Master_failoverFramework_http_CHECK(framework, newHttp) ==
  /\ Framework_updateConnection_http_CHECK(framework, newHttp)
  /\ Framework_heartbeat_CHECK(
       Framework_updateConnection_http(framework, newHttp))

Master_failoverFramework_http(framework, newHttp) ==
  Framework_heartbeat(
    [Framework_updateConnection_http(framework, newHttp)
       EXCEPT !.connected = TRUE, !.active = TRUE])

(***************************************************************************)
(* SpecConn: the connection of Framework objects.  Each action is one call *)
(* on a Framework (construction, updateConnection, heartbeat, destruction) *)
(* in any order; a call whose CHECK fails ends the process.  The master    *)
(* opens a new HttpConnection, with a new stream id, for every subscribe.  *)
(* A call that closes an HTTP connection blocks in closeHttpConnection     *)
(* until the Heartbeater has terminated: it is two steps, between which    *)
(* the master runs nothing and the Heartbeater, a process of its own, can  *)
(* send.                                                                   *)
(***************************************************************************)
connUnchanged ==
  UNCHANGED <<slaves, offers, offerTimers, tasks, registry, slaveIDs,
              registrar, pending, allocator, hist, regOp, activeRoles,
              inverseOffers, inverseOfferTimers, flags>>

\* The pipes closed so far, after `framework` closed its HTTP connection
\* (http.close() is called for a connected framework only).
ClosedPipes(framework) ==
  IF framework.http # None /\ framework.connected
  THEN http.closed \cup {framework.http}
  ELSE http.closed

\* The roles of the FrameworkInfo a Framework is constructed with.
ConnRoles == {DefaultRole, "a"}

\* No call on a Framework is waiting for a Heartbeater to terminate: the
\* master runs one call at a time and is blocked while one waits.
ConnIdle == http.waiting = <<>>

ConnAborts ==
  /\ aborted' = TRUE
  /\ UNCHANGED <<frameworks, http, nextIds>>

\* Call `call` on framework f, with argument `arg`, has entered
\* closeHttpConnection and waits in process::wait(heartbeater): the pipe
\* is closed and http cleared, the Heartbeater is still there.  The call
\* goes on, from the Framework it was entered with, in ConnWaitReturns.
ConnWaits(f, call, arg) ==
  /\ frameworks' = [frameworks EXCEPT !.registered[f] =
                      Framework_closeHttpConnection_wait(@)]
  /\ http' = [http EXCEPT
                !.closed = ClosedPipes(frameworks.registered[f]),
                !.nextStreamId =
                  IF call \in {"updateConnection_http", "failoverFramework_http"}
                  THEN @ + 1 ELSE @,
                !.waiting = <<[call |-> call, arg |-> arg,
                               framework |-> frameworks.registered[f]]>>]
  /\ UNCHANGED <<nextIds, aborted>>

\* new Framework(master, flags, info, pid)
ConnNewPid ==
  /\ ~aborted
  /\ ConnIdle
  /\ nextIds.nextFrameworkId <= MaxFrameworks
  /\ \E pid \in Pids, role \in ConnRoles :
       LET id == nextIds.nextFrameworkId
       IN /\ frameworks' = [frameworks EXCEPT !.registered =
                              MapPut(@, id,
                                     Framework_Framework(id, role, pid, None, 0))]
          /\ nextIds' = [nextIds EXCEPT !.nextFrameworkId = @ + 1]
          /\ UNCHANGED <<http, aborted>>
          /\ connUnchanged

\* new Framework(master, flags, info, http)
ConnNewHttp ==
  /\ ~aborted
  /\ ConnIdle
  /\ nextIds.nextFrameworkId <= MaxFrameworks
  /\ http.nextStreamId <= MaxConnections
  /\ \E role \in ConnRoles :
       LET id == nextIds.nextFrameworkId
       IN /\ frameworks' = [frameworks EXCEPT !.registered =
                              MapPut(@, id, Framework_Framework(
                                              id, role, None, http.nextStreamId, 0))]
          /\ nextIds' = [nextIds EXCEPT !.nextFrameworkId = @ + 1]
          /\ http' = [http EXCEPT !.nextStreamId = @ + 1]
          /\ UNCHANGED aborted
          /\ connUnchanged

\* framework->updateConnection(newPid): with an HTTP connection it waits
\* in closeHttpConnection before pid is assigned.
ConnUpdatePid ==
  /\ ~aborted
  /\ ConnIdle
  /\ \E f \in DOMAIN frameworks.registered, pid \in Pids :
       LET framework == frameworks.registered[f]
       IN IF ~Framework_updateConnection_pid_CHECK(framework, pid)
          THEN ConnAborts
          ELSE IF framework.http # None
          THEN ConnWaits(f, "updateConnection_pid", pid)
          ELSE /\ frameworks' = [frameworks EXCEPT !.registered[f] =
                                   Framework_updateConnection_pid(framework, pid)]
               /\ UNCHANGED <<http, nextIds, aborted>>
  /\ connUnchanged

\* framework->updateConnection(newHttp): without a PID it waits in
\* closeHttpConnection before http is assigned.
ConnUpdateHttp ==
  /\ ~aborted
  /\ ConnIdle
  /\ http.nextStreamId <= MaxConnections
  /\ \E f \in DOMAIN frameworks.registered :
       LET framework == frameworks.registered[f]
       IN IF ~Framework_updateConnection_http_CHECK(framework, http.nextStreamId)
          THEN ConnAborts
          ELSE IF framework.pid = None
          THEN ConnWaits(f, "updateConnection_http", http.nextStreamId)
          ELSE /\ frameworks' = [frameworks EXCEPT !.registered[f] =
                                   Framework_updateConnection_http(
                                     framework, http.nextStreamId)]
               /\ http' = [http EXCEPT !.nextStreamId = @ + 1]
               /\ UNCHANGED <<nextIds, aborted>>
  /\ connUnchanged

\* framework->heartbeat()
ConnHeartbeat ==
  /\ ~aborted
  /\ ConnIdle
  /\ \E f \in DOMAIN frameworks.registered :
       LET framework == frameworks.registered[f]
       IN IF Framework_heartbeat_CHECK(framework)
          THEN /\ frameworks' = [frameworks EXCEPT !.registered[f] =
                                   Framework_heartbeat(framework)]
               /\ UNCHANGED <<http, nextIds, aborted>>
               /\ connUnchanged
          ELSE /\ aborted' = TRUE
               /\ UNCHANGED <<frameworks, http, nextIds>>
               /\ connUnchanged

\* The scheduler's socket closes: the framework is disconnected and
\* deactivated (connected and active are plain fields), and the pipe of
\* an HTTP connection is closed at the scheduler's end.
ConnDisconnect ==
  /\ ~aborted
  /\ ConnIdle
  /\ \E f \in DOMAIN frameworks.registered :
       /\ frameworks.registered[f].connected
       /\ frameworks' = [frameworks EXCEPT
                           !.registered[f].connected = FALSE,
                           !.registered[f].active = FALSE]
       /\ http' = [http EXCEPT !.closed =
                     IF frameworks.registered[f].http # None
                     THEN @ \cup {frameworks.registered[f].http}
                     ELSE @]
       /\ UNCHANGED <<nextIds, aborted>>
       /\ connUnchanged

\* framework->send(message): nothing of the Framework changes.
ConnSend ==
  /\ ~aborted
  /\ ConnIdle
  /\ \E f \in DOMAIN frameworks.registered :
       /\ aborted' = ~Framework_send_CHECK(frameworks.registered[f])
       /\ UNCHANGED <<frameworks, http, nextIds>>
       /\ connUnchanged

\* delete framework: ~Framework closes the HTTP connection, and waits in
\* closeHttpConnection before the object is gone.
ConnDelete ==
  /\ ~aborted
  /\ ConnIdle
  /\ \E f \in DOMAIN frameworks.registered :
       LET framework == frameworks.registered[f]
       IN IF framework.http # None
          THEN IF Framework_closeHttpConnection_CHECK(framework)
               THEN ConnWaits(f, "~Framework", None)
               ELSE ConnAborts
          ELSE /\ frameworks' = [frameworks EXCEPT !.registered = MapErase(@, f)]
               /\ UNCHANGED <<http, nextIds, aborted>>
  /\ connUnchanged

\* process::wait(heartbeater) returns: closeHttpConnection clears the
\* heartbeater and the call that entered it runs to its end.  Nothing but
\* this call writes the Framework while it waits, so what it leaves is
\* what the call makes of the Framework it was entered with.
ConnWaitReturns ==
  /\ ~aborted
  /\ ~ConnIdle
  /\ LET call == http.waiting[1].call
         arg == http.waiting[1].arg
         framework == http.waiting[1].framework
         f == framework.id
     IN frameworks' =
          IF call = "~Framework"
          THEN [frameworks EXCEPT !.registered = MapErase(@, f)]
          ELSE [frameworks EXCEPT !.registered[f] =
                  CASE call = "updateConnection_pid" ->
                         Framework_updateConnection_pid(framework, arg)
                    [] call = "updateConnection_http" ->
                         Framework_updateConnection_http(framework, arg)
                    [] call = "failoverFramework_pid" ->
                         Master_failoverFramework_pid(framework, arg)
                    [] call = "failoverFramework_http" ->
                         Master_failoverFramework_http(framework, arg)]
  /\ http' = [http EXCEPT !.waiting = <<>>]
  /\ UNCHANGED <<nextIds, aborted>>
  /\ connUnchanged

\* The Heartbeater of a framework, a process of its own, sends a
\* heartbeat; it does so until it has terminated, also while the master
\* waits for that.
HeartbeaterHeartbeat ==
  /\ ~aborted
  /\ \E f \in DOMAIN frameworks.registered :
       LET heartbeater == frameworks.registered[f].heartbeater
       IN /\ heartbeater # None
          /\ http' = [http EXCEPT !.heartbeats =
                        IF Heartbeater_heartbeat(heartbeater, http.closed)
                        THEN @ \cup {heartbeater} ELSE @]
  /\ UNCHANGED <<frameworks, nextIds, aborted>>
  /\ connUnchanged

NextConn ==
  \/ ConnNewPid
  \/ ConnNewHttp
  \/ ConnUpdatePid
  \/ ConnUpdateHttp
  \/ ConnHeartbeat
  \/ ConnDisconnect
  \/ ConnSend
  \/ ConnDelete
  \/ ConnWaitReturns
  \/ HeartbeaterHeartbeat

SpecConn == Init /\ [][NextConn]_vars

\* The framework a call is waiting on in closeHttpConnection, if any.
ConnWaiting == {http.waiting[i].framework.id : i \in DOMAIN http.waiting}

\* C10: every Framework has exactly one of pid and http set, after its
\* construction and after every updateConnection call on it; inside a
\* call that waits for the Heartbeater, where http is cleared and the new
\* connection not yet assigned, it has none.
SingleConnection ==
  \A f \in RegisteredFrameworkIds :
    IF f \in ConnWaiting
    THEN /\ frameworks.registered[f].http = None
         /\ frameworks.registered[f].pid = None
    ELSE (frameworks.registered[f].pid # None)
           # (frameworks.registered[f].http # None)

\* C10 witness: the first Framework constructed is on the second HTTP
\* connection made, and a pipe was closed on the way.
SingleConnectionWitness ==
  \E f \in RegisteredFrameworkIds :
    /\ ConnIdle
    /\ frameworks.registered[f].http # None
    /\ frameworks.registered[f].pid = None
    /\ http.closed # {}
    /\ http.nextStreamId = 3
    /\ nextIds.nextFrameworkId = 2

(***************************************************************************)
(* SpecAgents: a master elected after a failover.  The registry it finds   *)
(* lists some agents as admitted and some as unreachable; it recovers,     *)
(* agents re-register from their addresses (agent s from address s), the   *)
(* grace timer fires.                                                      *)
(***************************************************************************)
InitAgents ==
  /\ InitMaster
  /\ \E S \in SUBSET SlaveIds :
       /\ S # {}
       /\ slaveIDs = S
       /\ \E U \in SUBSET (SlaveIds \ S) :
            registry = [slaves |-> SetToSeq(S),
                        unreachable |->
                          [i \in 1..Cardinality(U) |->
                             [id |-> SetToSeq(U)[i], timestamp |-> 1]]]

RecoverRegistry ==
  /\ ~aborted
  /\ slaves.recoveredTimer = "none"
  /\ Handle(Master_recover(State, registry))

\* An agent re-registers and reports one of the executor lists `lists`.
ReregisterSlave(lists) ==
  /\ ~aborted
  /\ slaves.recoveredTimer # "none"
  /\ Len(registrar) < MaxRegistryQueue
  /\ \E id \in SlaveIds, executorInfos \in lists :
       Handle(Master_reregisterSlave(State, id, id, RZero, executorInfos))

RecoveredSlavesTimeout ==
  /\ ~aborted
  /\ slaves.recoveredTimer = "pending"
  /\ Handle(Master_recoveredSlavesTimeout(State))

MarkUnreachableAfterFailover ==
  /\ ~aborted
  /\ Len(registrar) < MaxRegistryQueue
  /\ \E p \in pending, time \in Times :
       /\ p.type = "markUnreachableAfterFailover"
       /\ Handle(Master_markUnreachableAfterFailover(State, p, time))

NextAgents ==
  \/ RecoverRegistry
  \/ ReregisterSlave(ExecutorInfoLists)
  \/ RegistrarApply
  \/ RecoveredSlavesTimeout
  \/ MarkUnreachableAfterFailover
  \/ (slaves.recoveredTimer # "none" /\ SubscribePid({1}))
  \/ DisconnectSlave

SpecAgents == InitAgents /\ [][NextAgents]_vars

UnreachableInRegistry == {registry.unreachable[i].id : i \in DOMAIN registry.unreachable}

\* C5: Slaves::transitioning(id) is true exactly for the agents recovered
\* at the failover that have neither been readmitted nor been marked
\* unreachable, which includes every recovered agent that is not registered
\* while the grace timer runs; such an agent is not registered, and a
\* reconciliation request that names it for a task the master does not
\* know gets no answer, where for any other agent it gets one.  A master
\* that a failed CHECK has ended answers nothing.
RecoveryGating ==
  aborted \/ \A id \in SlaveIds :
    /\ Slaves_transitioning(slaves, id)
         <=> /\ id \in hist.recovered
             /\ id \notin RegisteredSlaveIds
             /\ id \notin UnreachableInRegistry
    /\ /\ slaves.recoveredTimer = "pending"
       /\ id \in hist.recovered
       /\ id \notin RegisteredSlaveIds
       => Slaves_transitioning(slaves, id)
    /\ \A f \in RegisteredFrameworkIds, t \in TaskIds :
         IF Slaves_transitioning(slaves, id)
         THEN /\ Registered_get_id(slaves.registered, id) = None
              /\ Master_reconcile(State, f, id, t) = "none"
         ELSE Master_reconcile(State, f, id, t) # "none"

\* C5 witness: the grace timer has fired, one agent recovered at the
\* failover is registered again, another is still awaited, and a
\* framework is there to ask.
RecoveryGatingWitness ==
  /\ slaves.recoveredTimer = "fired"
  /\ RegisteredFrameworkIds # {}
  /\ \E a, b \in hist.recovered :
       /\ a \in RegisteredSlaveIds
       /\ Slaves_transitioning(slaves, b)

MarkCalls(st) == {p \in st.pending : p.type = "markUnreachableAfterFailover"}

\* C7: when the grace timer fires, one markUnreachableAfterFailover call is
\* dispatched for every agent still awaited; a call for an agent that is
\* awaited and not re-registering issues one MarkSlaveUnreachable
\* operation, any other call issues none; no agent ever has more than one
\* issued, an agent readmitted before the timer fired has none, and once
\* the calls have run an agent that never tried to re-register has one.
GraceTimer ==
  /\ \A id \in SlaveIds :
       /\ hist.markUnreachable[id] <= 1
       /\ id \in hist.readmittedInTime => hist.markUnreachable[id] = 0
       /\ id \notin hist.recovered => hist.markUnreachable[id] = 0
  /\ slaves.recoveredTimer = "pending" =>
       {p.id : p \in MarkCalls(Master_recoveredSlavesTimeout(State))}
         = slaves.recovered
  /\ \A id \in hist.recovered \ hist.reregistrations :
       /\ slaves.recoveredTimer = "fired"
       /\ id \notin {p.id : p \in MarkCalls(State)}
       => hist.markUnreachable[id] = 1
  /\ \A p \in MarkCalls(State), time \in Times :
       LET after == Master_markUnreachableAfterFailover(State, p, time)
           issued == {i \in DOMAIN after.registrar :
                        /\ after.registrar[i].type = "MarkSlaveUnreachable"
                        /\ after.registrar[i].id = p.id}
       IN IF p.id \in slaves.recovered /\ p.id \notin slaves.reregistering
          THEN /\ Cardinality(issued) = 1
               /\ after.hist.markUnreachable[p.id] = 1
          ELSE /\ after.registrar = registrar
               /\ after.hist = hist

\* C7 witness: after the timer fired, a MarkSlaveUnreachable operation was
\* issued for one agent and none for another, readmitted in time.
GraceTimerWitness ==
  /\ slaves.recoveredTimer = "fired"
  /\ \E a, b \in hist.recovered :
       /\ hist.markUnreachable[a] = 1
       /\ b \in hist.readmittedInTime
       /\ hist.markUnreachable[b] = 0

(***************************************************************************)
(* SpecTasks: one framework launches tasks, with and without executors, on *)
(* two agents; the tasks are updated, acknowledged and removed, the        *)
(* executors exit, the framework and the agents are removed.               *)
(***************************************************************************)
NextTasks ==
  \/ RegisterSlave(Pids, MaxSlaves)
  \/ RegistrarApply
  \/ (nextIds.nextFrameworkId = 1 /\ SubscribePid({1}))
  \/ Offer
  \/ Accept(LaunchOperations)
  \/ AcceptAuthorized
  \/ StatusUpdate
  \/ Acknowledge
  \/ ExitedExecutor
  \/ RemoveFramework
  \/ RemoveSlave

SpecTasks == Init /\ [][NextTasks]_vars

\* C11: a Framework's totalUsedResources is the sum of its usedResources
\* over the agents, and its totalOfferedResources the sum of its
\* offeredResources over the agents.
FrameworkAggregates ==
  \A f \in RegisteredFrameworkIds :
    LET framework == frameworks.registered[f]
    IN /\ framework.totalUsedResources
            = RSum(framework.usedResources, DOMAIN framework.usedResources)
       /\ framework.totalOfferedResources
            = RSum(framework.offeredResources,
                   DOMAIN framework.offeredResources)

\* C11 witness: a framework runs an executor on one agent and holds an
\* offer of another agent.
FrameworkAggregatesWitness ==
  \E f \in RegisteredFrameworkIds :
    LET framework == frameworks.registered[f]
    IN \E a \in DOMAIN framework.usedResources,
          b \in DOMAIN framework.offeredResources :
         /\ a # b
         /\ \E e \in ExecutorIds : Framework_hasExecutor(framework, a, e)
         /\ ~REmpty(framework.usedResources[a])
         /\ ~REmpty(framework.offeredResources[b])

\* C12: no task ID of a framework is at once in the framework's live task
\* map and in its completed-task ring.
LiveOrCompleted ==
  \A f \in RegisteredFrameworkIds :
    LET framework == frameworks.registered[f]
    IN framework.tasks \cap CompletedTaskIds(framework) = {}

\* C13: for every framework f and agent s, the Framework's usedResources[s]
\* equals the Slave's usedResources[f]; a terminal update or a removal of a
\* live task takes the task's resources from both aggregates together.
SharedTaskAccounting ==
  /\ \A f \in RegisteredFrameworkIds, s \in SlaveIds :
       MapGetOr(frameworks.registered[f].usedResources, s, RZero)
         = IF s \in RegisteredSlaveIds
           THEN MapGetOr(slaves.registered.ids[s].usedResources, f, RZero)
           ELSE RZero
  /\ \A s \in RegisteredSlaveIds, f \in FrameworkIds \ RegisteredFrameworkIds :
       MapGetOr(slaves.registered.ids[s].usedResources, f, RZero) = RZero
  /\ \A key \in DOMAIN tasks :
       LET task == tasks[key]
           f == task.framework_id
           s == task.slave_id
           used == MapGetOr(frameworks.registered[f].usedResources, s, RZero)
           left == IF isTerminalState(task.state)
                   THEN used
                   ELSE RSub(used, task.resources)
       IN (f \in RegisteredFrameworkIds /\ s \in RegisteredSlaveIds) =>
            \A after \in {Master_updateTask(State, key, "TASK_FINISHED"),
                           Master_removeTask(State, key)} :
              /\ ~after.aborted
              /\ MapGetOr(FrameworkOf(after, f).usedResources, s, RZero) = left
              /\ MapGetOr(SlaveOf(after, s).usedResources, f, RZero) = left

\* C13 witness: a framework has, on one agent, a task that is running and a
\* task that has terminated and is not yet removed.
SharedTaskAccountingWitness ==
  \E k1 \in DOMAIN tasks, k2 \in DOMAIN tasks :
    /\ tasks[k1].framework_id = tasks[k2].framework_id
    /\ tasks[k1].slave_id = tasks[k2].slave_id
    /\ tasks[k1].framework_id \in RegisteredFrameworkIds
    /\ tasks[k1].slave_id \in RegisteredSlaveIds
    /\ tasks[k1].state = "TASK_RUNNING"
    /\ isTerminalState(tasks[k2].state)
    /\ ~REmpty(MapGetOr(frameworks.registered[tasks[k1].framework_id]
                          .usedResources, tasks[k1].slave_id, RZero))

\* What removeTask leaves of `task`, which was live or not before it and
\* is in `state` when it is removed.
RemovedTask(after, key, task, live, state) ==
  LET f == task.framework_id
      s == task.slave_id
      framework == frameworks.registered[f]
      slave == slaves.registered.ids[s]
      once == IF live THEN task.resources ELSE RZero
      now == FrameworkOf(after, f)
  IN /\ ~after.aborted
     /\ now.totalUsedResources = RSub(framework.totalUsedResources, once)
     /\ MapGetOr(now.usedResources, s, RZero)
          = RSub(MapGetOr(framework.usedResources, s, RZero), once)
     /\ MapGetOr(SlaveOf(after, s).usedResources, f, RZero)
          = RSub(MapGetOr(slave.usedResources, f, RZero), once)
     /\ now.completedTasks
          = CircularPushBack(framework.completedTasks,
                             [task_id |-> task.task_id, state |-> state],
                             MaxCompletedTasks)
     /\ task.task_id \notin now.tasks
     /\ task.task_id \notin MapGetOr(SlaveOf(after, s).tasks, f, {})
     /\ key \notin DOMAIN after.tasks

\* C14: over an optional terminal status update followed by removeTask, a
\* task's resources are subtracted from the Slave's and the Framework's used
\* resources exactly once, and removeTask archives the task in the
\* Framework's completed-task ring and erases it from both task maps.
RemoveTaskDecrementOnce ==
  \A key \in DOMAIN tasks :
    LET task == tasks[key]
        live == ~isTerminalState(task.state)
    IN (/\ task.framework_id \in RegisteredFrameworkIds
        /\ task.slave_id \in RegisteredSlaveIds) =>
         /\ RemovedTask(Master_removeTask(State, key), key, task, live,
                        task.state)
         /\ \A state \in TerminalStates :
              RemovedTask(
                Master_removeTask(Master_updateTask(State, key, state), key),
                key, task, live, IF live THEN state ELSE task.state)

\* C14 witness: a task was archived and erased while the framework uses on
\* the same agent more than the resources of a task that is still live.
RemoveTaskDecrementOnceWitness ==
  \E key \in DOMAIN tasks :
    LET task == tasks[key]
        f == task.framework_id
    IN /\ f \in RegisteredFrameworkIds
       /\ task.slave_id \in RegisteredSlaveIds
       /\ ~isTerminalState(task.state)
       /\ frameworks.registered[f].completedTasks # <<>>
       /\ CompletedTaskIds(frameworks.registered[f])
            \cap frameworks.registered[f].tasks = {}
       /\ MapGetOr(frameworks.registered[f].usedResources,
                   task.slave_id, RZero) # task.resources

\* C15: once a task's state is terminal, no status update, whatever state
\* it carries, changes the task's state.
TerminalStatesFinal ==
  \A key \in DOMAIN tasks :
    LET task == tasks[key]
    IN isTerminalState(task.state) =>
         \A state \in TaskStates :
           /\ Master_updateTask(State, key, state).tasks[key].state
                = task.state
           /\ task.slave_id \in RegisteredSlaveIds =>
                LET after == Master_statusUpdate(State, task.slave_id,
                                                 task.framework_id,
                                                 task.task_id, state, TRUE)
                IN /\ key \in DOMAIN after.tasks
                   /\ after.tasks[key].state = task.state

\* C15 witness: a task that failed has received a second terminal update.
TerminalStatesFinalWitness ==
  \E key \in DOMAIN tasks :
    /\ tasks[key].state = "TASK_FAILED"
    /\ tasks[key].terminalUpdates = 2
    /\ tasks[key].slave_id \in RegisteredSlaveIds

\* The offers named are in no table of `after`; offer IDs only grow.
OffersGone(after, offerIds) ==
  /\ ~after.aborted
  /\ \A id \in offerIds :
       /\ Master_getOffer(after, id) = None
       /\ \A s \in DOMAIN after.slaves.registered.ids :
            id \notin SlaveOf(after, s).offers
       /\ \A f \in DOMAIN after.frameworks.registered :
            id \notin FrameworkOf(after, f).offers

NamedOffersRemoved ==
  /\ \A id \in DOMAIN offers : id < nextIds.nextOfferId
  /\ \A f \in RegisteredFrameworkIds, offerIds \in SUBSET OfferIds :
       /\ OffersGone(Master_decline(State, f, offerIds), offerIds)
       /\ \A operations \in LaunchOperations :
            LET after == Master_accept(State, f, offerIds, operations)
            IN /\ OffersGone(after, offerIds)
               /\ after.pending # pending => ~Accept_error(State, f, offerIds)

OfferIdsNotReused ==
  /\ nextIds.nextOfferId' >= nextIds.nextOfferId
  /\ \A id \in DOMAIN offers' \ DOMAIN offers : id = nextIds.nextOfferId

\* C16: an offer named in an accept or decline call is removed from the
\* offer table, from its agent's offers and from its framework's offers by
\* the call itself, whether or not the call passes validation and before
\* the authorization completes; an offer ID that has left the table never
\* returns to it, so none is present when _accept runs.
AcceptRemovesOffers == []NamedOffersRemoved /\ [][OfferIdsNotReused]_vars

\* C16 witness: while the authorization of an accept is in flight, the
\* agent whose offer the accept named holds no offer and has nothing
\* offered, and an offer of another agent is still in the table.
AcceptRemovesOffersWitness ==
  \E p \in pending :
    /\ p.type = "accept"
    /\ ~REmpty(p.offeredResources)
    /\ p.slave_id \in RegisteredSlaveIds
    /\ slaves.registered.ids[p.slave_id].offers = {}
    /\ REmpty(slaves.registered.ids[p.slave_id].offeredResources)
    /\ \E id \in DOMAIN offers : offers[id].slave_id # p.slave_id

(***************************************************************************)
(* SpecLifecycle: agents are admitted, removed, marked unreachable and     *)
(* readmitted while a framework holds offers and runs tasks on them, and   *)
(* the registry operations succeed or fail.                                *)
(***************************************************************************)
NextLifecycle ==
  \/ RegisterSlave(Pids, MaxSlaves)
  \/ RegistrarApply
  \/ (nextIds.nextFrameworkId = 1 /\ SubscribePid({1}))
  \/ Offer
  \/ Accept(LaunchOperations)
  \/ AcceptAuthorized
  \/ RemoveSlave
  \/ MarkUnreachable
  \/ ReregisterUnreachableSlave({<<>>})
  \/ RemoveFramework

SpecLifecycle == Init /\ [][NextLifecycle]_vars

\* The transition that queued `op` is still in flight in `st`.
InFlight(st, op) ==
  CASE op.type = "AdmitSlave" -> op.pid \in st.slaves.registering
    [] op.type = "RemoveSlave" -> op.id \in st.slaves.removing
    [] op.type = "MarkSlaveReachable" -> op.id \in st.slaves.reregistering
    [] op.type = "MarkSlaveUnreachable" ->
         op.id \in st.slaves.markingUnreachable

\* C17: when the registry operation of an admit, a mark-unreachable, a
\* mark-reachable or a remove fails, or returns no mutation where one was
\* required, the transition that issued it is over and the registered index,
\* the tasks, the executors, the offers and the resources are what they were
\* before the transition began.
RegistryFailureUnchanged ==
  registrar # <<>> =>
    LET op == Head(registrar)
        st == [State EXCEPT !.registrar = Tail(@)]
    IN /\ InFlight(st, op)
       /\ \A future \in {"failed", "false"} :
            (future = "false" => op.type # "MarkSlaveReachable") =>
              LET after == Master_continuation(st, op, future)
              IN /\ ~after.aborted
                 /\ ~InFlight(after, op)
                 /\ after.slaves.registered = slaves.registered
                 /\ after.slaves.unreachable = slaves.unreachable
                 /\ after.slaves.removed = slaves.removed
                 /\ after.slaves.recovered = slaves.recovered
                 /\ after.tasks = tasks
                 /\ after.frameworks = frameworks
                 /\ after.offers = offers
                 /\ after.offerTimers = offerTimers
                 /\ after.allocator = allocator
                 /\ after.pending = pending

\* C17 witness: the registry is about to answer a mark-unreachable or a
\* remove of a registered agent that runs a task and holds an offer.
RegistryFailureUnchangedWitness ==
  /\ registrar # <<>>
  /\ Head(registrar).type \in {"MarkSlaveUnreachable", "RemoveSlave"}
  /\ Head(registrar).id \in RegisteredSlaveIds
  /\ LET slave == slaves.registered.ids[Head(registrar).id]
     IN /\ slave.offers # {}
        /\ \E f \in DOMAIN slave.tasks : slave.tasks[f] # {}
        /\ \E f \in DOMAIN slave.usedResources :
             ~REmpty(slave.usedResources[f])

\* `after` has the tables of the current state.
SameTables(after) ==
  /\ ~after.aborted
  /\ after.slaves = slaves
  /\ after.frameworks = frameworks
  /\ after.tasks = tasks
  /\ after.offers = offers
  /\ after.offerTimers = offerTimers
  /\ after.nextIds = nextIds

\* C18: a completion delivered for an agent or a framework that was removed
\* while the call was outstanding changes no table and touches no removed
\* entity: _accept and the offer callback find the entity gone and only
\* return the resources to the allocator, and no registry continuation is
\* ever delivered for an agent that left the index meanwhile.
CompletionRevalidation ==
  /\ ~aborted
  /\ \A p \in pending :
       (/\ p.type = "accept"
        /\ \/ p.framework_id \notin RegisteredFrameworkIds
           \/ p.slave_id \notin RegisteredSlaveIds) =>
         \A authorized \in [1..Len(p.operations) -> BOOLEAN] :
           LET after == Master__accept(State, p, authorized)
           IN SameTables(after) /\ after.pending = pending \ {p}
  /\ \A f \in FrameworkIds, s \in SlaveIds :
       (f \notin RegisteredFrameworkIds \/ s \notin RegisteredSlaveIds) =>
         \A u \in 0..MaxCpus, r \in 0..MaxCpus :
           LET after == Master_offer(State, f, s, Res(u, r))
           IN SameTables(after) /\ after.pending = pending
  /\ registrar # <<>> =>
       LET op == Head(registrar)
           st == [State EXCEPT !.registrar = Tail(@)]
       IN /\ op.type \in {"RemoveSlave", "MarkSlaveUnreachable"} =>
               op.id \in RegisteredSlaveIds
          /\ op.type = "MarkSlaveReachable" =>
               op.id \notin RegisteredSlaveIds
          /\ \A future \in {"true", "failed"} :
               ~Master_continuation(st, op, future).aborted

\* C18 witness: the authorization of an accept that launches a task is
\* outstanding, and the framework or the agent of the accept is gone.
CompletionRevalidationWitness ==
  \E p \in pending :
    /\ p.type = "accept"
    /\ p.operations # <<>>
    /\ \/ p.framework_id \notin RegisteredFrameworkIds
       \/ p.slave_id \notin RegisteredSlaveIds
    /\ registrar # <<>>

\* Marking unreachable: agents register one after the other at one address
\* and are marked unreachable or removed, while a framework holds offers and
\* inverse offers of their resources and runs tasks on them.  The master
\* is started with history containers of HistoryCapacity entries, which take
\* every task an agent can carry.
NextMarkUnreachable ==
  \/ RegisterSlave({1}, MaxSlaves)
  \/ RegistrarApply
  \/ (nextIds.nextFrameworkId = 1 /\ SubscribePid({1}))
  \/ Offer
  \/ InverseOffer
  \/ Accept(LaunchOperations)
  \/ AcceptAuthorized
  \/ StatusUpdate
  \/ RemoveSlave
  \/ MarkUnreachable
  \/ RemoveFramework

SpecMarkUnreachable == InitHistory /\ [][NextMarkUnreachable]_vars

\* The entries at the young end of a framework's completed-task ring, as
\* many as one removal of an agent can archive.
LastCompleted(framework) ==
  {framework.completedTasks[i] :
     i \in {j \in DOMAIN framework.completedTasks :
              j > Len(framework.completedTasks) - Cardinality(TaskIds)}}

\* What a successful mark-unreachable of agent `id` leaves in `after`:
\* every task of the agent is gone from the task tables and archived with
\* its framework, a live one as unreachable and a terminated one in the
\* state it had; no offer and no inverse offer of the agent is in the
\* master's tables or in a framework's sets; the agent is out of the
\* registered index and in the removed cache.
MarkedUnreachable(after, id) ==
  LET slave == slaves.registered.ids[id]
  IN /\ ~after.aborted
     /\ \A key \in DOMAIN tasks :
          tasks[key].slave_id = id =>
            /\ key \notin DOMAIN after.tasks
            /\ key[1] \in DOMAIN after.frameworks.registered =>
                 /\ key[2] \notin FrameworkOf(after, key[1]).tasks
                 /\ [task_id |-> key[2],
                     state |-> IF isTerminalState(tasks[key].state)
                               THEN tasks[key].state
                               ELSE "TASK_UNREACHABLE"]
                      \in LastCompleted(FrameworkOf(after, key[1]))
     /\ \A f \in DOMAIN after.frameworks.registered :
          /\ FrameworkOf(after, f).offers \cap slave.offers = {}
          /\ FrameworkOf(after, f).inverseOffers \cap slave.inverseOffers = {}
          /\ id \notin DOMAIN FrameworkOf(after, f).offeredResources
          /\ id \notin DOMAIN FrameworkOf(after, f).usedResources
     /\ \A o \in DOMAIN after.offers : after.offers[o].slave_id # id
     /\ slave.offers \cap (DOMAIN after.offers \cup after.offerTimers) = {}
     /\ \A o \in DOMAIN after.inverseOffers :
          after.inverseOffers[o].slave_id # id
     /\ slave.inverseOffers
          \cap (DOMAIN after.inverseOffers \cup after.inverseOfferTimers) = {}
     /\ id \notin DOMAIN after.slaves.registered.ids
     /\ slave.pid \notin DOMAIN after.slaves.registered.pids
     /\ id \in SeqIds(after.slaves.removed)
     /\ Len(after.slaves.removed) <= MaxRemovedSlaves
     /\ id \in SeqIds(after.slaves.unreachable)
     /\ id \notin after.slaves.markingUnreachable
     /\ id \notin after.allocator.slaves

\* C19: after the mark-unreachable operation of an agent succeeds, every
\* live task of the agent is archived as unreachable and is in no task
\* table, no offer and no inverse offer of the agent is in any index, the
\* agent is not in the registered index and its ID is in the bounded
\* removed cache; while a markUnreachable or a removal of an agent is in
\* flight, another markUnreachable or removeSlave for it issues nothing.
MarkUnreachableEffects ==
  /\ registrar # <<>> =>
       LET op == Head(registrar)
       IN (op.type = "MarkSlaveUnreachable" /\ ~op.failover) =>
            MarkedUnreachable(
              Master_continuation([State EXCEPT !.registrar = Tail(@)],
                                  op, "true"),
              op.id)
  /\ \A id \in slaves.markingUnreachable \cup slaves.removing :
       /\ Master_removeSlave(State, id) = State
       /\ \A time \in Times : Master_markUnreachable(State, id, time) = State
       /\ Cardinality({i \in 1..Len(registrar) :
                         /\ registrar[i].type
                              \in {"MarkSlaveUnreachable", "RemoveSlave"}
                         /\ registrar[i].id = id}) = 1

\* C19 witness: the mark-unreachable operation of an agent is about to
\* succeed while the agent runs a live task and an inverse offer of its
\* resources is held by the task's framework; the success archives the
\* task as unreachable, empties the inverse-offer table and puts the agent
\* into the removed cache.
MarkUnreachableEffectsWitness ==
  /\ ~aborted
  /\ registrar # <<>>
  /\ Head(registrar).type = "MarkSlaveUnreachable"
  /\ ~Head(registrar).failover
  /\ LET id == Head(registrar).id
         after == Master_continuation([State EXCEPT !.registrar = Tail(@)],
                                      Head(registrar), "true")
     IN /\ id \in RegisteredSlaveIds
        /\ \E key \in DOMAIN tasks :
             /\ tasks[key].slave_id = id
             /\ ~isTerminalState(tasks[key].state)
             /\ key[1] \in RegisteredFrameworkIds
             /\ frameworks.registered[key[1]].inverseOffers
                  \cap slaves.registered.ids[id].inverseOffers # {}
             /\ [task_id |-> key[2], state |-> "TASK_UNREACHABLE"]
                  \in LastCompleted(FrameworkOf(after, key[1]))
        /\ DOMAIN inverseOffers # {}
        /\ DOMAIN after.inverseOffers = {}
        /\ id \in SeqIds(after.slaves.removed)
        /\ id \in slaves.markingUnreachable

(***************************************************************************)
(* SpecFailover: schedulers disconnect and re-register while their         *)
(* failover timers run, hold offers of an agent and run tasks on it.       *)
(***************************************************************************)
NextFailover ==
  \/ RegisterSlave({1}, MaxTaskSlaves)
  \/ RegistrarApply
  \/ SubscribePid({1})
  \/ Offer
  \/ Accept(LaunchOperations)
  \/ AcceptAuthorized
  \/ DisconnectFramework
  \/ ResubscribeFramework
  \/ FrameworkFailoverTimeout

SpecFailover == Init /\ [][NextFailover]_vars

\* C20: a frameworkFailoverTimeout event removes the framework only if the
\* framework has not re-registered since the disconnection that armed the
\* timer, which is when its reregisteredTime equals the time the event
\* carries; if the framework re-registered in between, the event changes
\* nothing.
FailoverTimeoutSuperseded ==
  \A p \in pending :
    p.type = "frameworkFailoverTimeout" =>
      LET f == p.framework_id
          after == Master_frameworkFailoverTimeout(State, p)
          reregistered == hist.epochs[f] # p.epoch
      IN /\ ~after.aborted
         /\ reregistered => after = [State EXCEPT !.pending = @ \ {p}]
         /\ f \in RegisteredFrameworkIds =>
              /\ reregistered
                   <=> frameworks.registered[f].reregisteredTime
                         # p.reregisteredTime
              /\ f \notin DOMAIN after.frameworks.registered <=> ~reregistered
              /\ ~reregistered =>
                   /\ ~frameworks.registered[f].connected
                   /\ f \in SeqIds(after.frameworks.completed)
         /\ f \notin RegisteredFrameworkIds =>
              after = [State EXCEPT !.pending = @ \ {p}]

\* C20 witness: a framework that re-registered after its timer was armed is
\* disconnected again, so that two timers of it are pending.
FailoverTimeoutSupersededWitness ==
  \E p \in pending, q \in pending :
    /\ p.type = "frameworkFailoverTimeout"
    /\ q.type = "frameworkFailoverTimeout"
    /\ p.framework_id = q.framework_id
    /\ p.framework_id \in RegisteredFrameworkIds
    /\ ~frameworks.registered[p.framework_id].connected
    /\ p.epoch # hist.epochs[p.framework_id]
    /\ q.epoch = hist.epochs[p.framework_id]
    /\ frameworks.registered[p.framework_id].reregisteredTime
         = q.reregisteredTime

\* C21: when a framework is removed because its failover timeout expired,
\* its live tasks are left running on their agents, no offer of it remains,
\* it is gone from the allocator, and it is in the bounded
\* completed-framework ring.
FailoverLeavesTasksRunning ==
  \A p \in pending :
    p.type = "frameworkFailoverTimeout" =>
      LET f == p.framework_id
          after == Master_frameworkFailoverTimeout(State, p)
      IN (/\ f \in RegisteredFrameworkIds
          /\ f \notin DOMAIN after.frameworks.registered) =>
           /\ ~after.aborted
           /\ \A key \in DOMAIN tasks :
                (key[1] = f /\ ~isTerminalState(tasks[key].state)) =>
                  /\ key \in DOMAIN after.tasks
                  /\ after.tasks[key].state = tasks[key].state
                  /\ Slave_getTask(SlaveOf(after, tasks[key].slave_id),
                                   f, key[2]) = key
           /\ \A o \in DOMAIN after.offers : after.offers[o].framework_id # f
           /\ f \notin after.allocator.frameworks
           /\ f \in SeqIds(after.frameworks.completed)
           /\ Len(after.frameworks.completed) <= MaxCompletedFrameworks

\* C22: Framework::send on a framework whose connection is closed (the
\* framework is disconnected, or its HTTP pipe is closed) delivers no
\* message and logs a warning, with a PID and with an HTTP connection.
SendOnClosedConnection ==
  \A f \in RegisteredFrameworkIds :
    LET framework == frameworks.registered[f]
    IN (\/ ~framework.connected
        \/ (framework.http # None /\ framework.http \in http.closed)) =>
         /\ Framework_send_CHECK(framework)
         /\ Framework_send(framework, http.closed).warned
         /\ Framework_send(framework, http.closed).delivered = "none"

\* What is free on an agent: its total less what is used and offered.
Slave_unallocated(slave) ==
  RSub(slave.totalResources,
       RAdd(RSum(slave.usedResources, DOMAIN slave.usedResources),
            slave.offeredResources))

\* The operation cannot be applied to the agent's total, or only by taking
\* from what is used or offered.
InvalidOperation(slave, operation) ==
  \/ ~Resources_apply(slave.totalResources, operation).ok
  \/ ~Resources_apply(Slave_unallocated(slave), operation).ok

NoApplyInFlight(slaveId) ==
  \A p \in pending : p.type = "apply" => p.slave_id # slaveId

\* Operations on an agent's resources: an agent registers, a framework is
\* offered its resources and launches tasks on them, and an operator
\* reserves and unreserves resources of the agent and creates and destroys
\* volumes on them.
NextApply ==
  \/ RegisterSlave({1}, MaxTaskSlaves)
  \/ RegistrarApply
  \/ SubscribePid({1})
  \/ Offer
  \/ Accept(LaunchOperations)
  \/ AcceptAuthorized
  \/ Decline
  \/ ApplyOperation(ResourceOperations)
  \/ ApplyCompletes

SpecApply == Init /\ [][NextApply]_vars

\* Master::apply rejects `operation` on agent s: the future it returns has
\* failed and the state is what it was, the agent's totalResources and
\* checkpointedResources with it, no call is in flight for the operation
\* and the master has not aborted.
OperationRejected(s, operation) ==
  /\ Master_apply_future(State, s, operation) = "failed"
  /\ Master_apply(State, s, operation) = State

\* C23 as stated: in every state of the running master, a reserve,
\* unreserve, create or destroy operation whose result would be invalid on
\* the agent is rejected.  It fails while an earlier operation on the agent
\* is in flight: the allocator has applied that one to its view of the
\* agent already, the agent's totalResources have not changed yet, and an
\* operation that undoes the one in flight is accepted although it cannot
\* be applied to totalResources as they are.
InvalidOperationRejectedAsStated ==
  ~aborted =>
    \A s \in RegisteredSlaveIds, operation \in ResourceOperations :
      InvalidOperation(slaves.registered.ids[s], operation) =>
        OperationRejected(s, operation)

\* C23: while the master runs, a reserve, unreserve, create or destroy
\* operation on an agent that has no operation in flight is rejected by
\* Master::apply if its result would be invalid (it cannot be applied to
\* totalResources, or only by taking from what is used or offered), and an
\* operation whose future has failed, with an operation in flight or not,
\* has left the whole state unchanged: totalResources and
\* checkpointedResources are what they were, nothing is applied in part and
\* the master has not aborted.  An operation that is alone in flight on an
\* agent is applied to totalResources and checkpointedResources together,
\* without an abort.
InvalidOperationRejected ==
  ~aborted =>
    /\ \A s \in RegisteredSlaveIds, operation \in ResourceOperations :
         /\ (/\ NoApplyInFlight(s)
             /\ InvalidOperation(slaves.registered.ids[s], operation)) =>
              OperationRejected(s, operation)
         /\ Master_apply_future(State, s, operation) = "failed" =>
              Master_apply(State, s, operation) = State
    /\ \A p \in pending :
         (/\ p.type = "apply"
          /\ p.slave_id \in RegisteredSlaveIds
          /\ \A q \in pending :
               (q.type = "apply" /\ q.slave_id = p.slave_id) => q = p) =>
           LET slave == slaves.registered.ids[p.slave_id]
               after == Master__apply(State, p, FALSE)
               total == Resources_apply(slave.totalResources, p.operation)
           IN /\ total.ok
              /\ ~after.aborted
              /\ SlaveOf(after, p.slave_id).totalResources = total.resources
              /\ SlaveOf(after, p.slave_id).checkpointedResources =
                   NeedCheckpointing(total.resources)

\* C23 witness: an agent holds a reserved resource and a volume, both
\* checkpointed by earlier operations, its last unreserved resource is
\* offered and no operation is in flight: reserving more could be applied
\* to its total, but not without taking from the offer, and destroying a
\* second volume or unreserving a second resource cannot be applied to the
\* total; Master::apply fails all three and leaves the state as it is.
InvalidOperationRejectedWitness ==
  /\ ~aborted
  /\ \E s \in RegisteredSlaveIds :
       LET slave == slaves.registered.ids[s]
           reserve == [type |-> "RESERVE", n |-> 1]
           create == [type |-> "CREATE", n |-> 1]
           destroy == [type |-> "DESTROY", n |-> 1]
       IN /\ NoApplyInFlight(s)
          /\ slave.checkpointedResources["volume"] = 1
          /\ slave.checkpointedResources["role"] = 0
          /\ ~REmpty(slave.offeredResources)
          /\ Resources_apply(slave.totalResources, reserve).ok
          /\ ~Resources_apply(Slave_unallocated(slave), reserve).ok
          /\ OperationRejected(s, reserve)
          /\ ~Resources_apply(slave.totalResources, create).ok
          /\ OperationRejected(s, create)
          /\ Resources_apply(slave.totalResources, destroy).ok
          /\ ~OperationRejected(s, destroy)

(***************************************************************************)
(* SpecReconcile: after a failover the registry holds agent 2, which the   *)
(* master awaits; agent 1 registers anew, a framework launches tasks on    *)
(* it and asks for the state of tasks.                                     *)
(***************************************************************************)
MaxReconcile == 2

\* The statuses of a reconciliation call: each names a task and may name
\* an agent; the tasks are named in the order of their ids.
ReconcileStatuses ==
  {statuses \in
     UNION {[1..n -> [task_id : TaskIds, slave_id : {None} \cup SlaveIds]] :
              n \in 0..MaxReconcile} :
     \A i \in 1..(Len(statuses) - 1) :
       statuses[i].task_id < statuses[i + 1].task_id}

\* The operation lists of the framework: nothing, or one task launched
\* without an executor.
ReconcileLaunches ==
  {operations \in LaunchOperations :
     operations # <<>> => operations[1].task.executor_id = None}

InitReconcile ==
  /\ InitMaster
  /\ slaveIDs = {2}
  /\ registry = [slaves |-> <<2>>, unreachable |-> <<>>]

ReconcileTasks ==
  /\ ~aborted
  /\ \E f \in FrameworkIds, statuses \in ReconcileStatuses :
       Handle(Master_reconcileTasks(State, f, statuses))

NextReconcile ==
  \/ RecoverRegistry
  \/ (nextIds.nextSlaveId = 1 /\ RegisterSlave({1}, MaxTaskSlaves))
  \/ ReregisterSlave({<<>>})
  \/ RegistrarApply
  \/ (nextIds.nextFrameworkId = 1 /\ SubscribePid({1}))
  \/ Offer
  \/ Accept(ReconcileLaunches)
  \/ AcceptAuthorized
  \/ StatusUpdate
  \/ ReconcileTasks

SpecReconcile == InitReconcile /\ [][NextReconcile]_vars

\* The update a queried status of framework f is due: the recorded state
\* of the task, or TASK_LOST for a task without a record.
DueUpdate(f, status) ==
  [task_id |-> status.task_id,
   state |-> IF <<f, status.task_id>> \in DOMAIN tasks
                  /\ status.task_id \in frameworks.registered[f].tasks
             THEN tasks[<<f, status.task_id>>].state
             ELSE "TASK_LOST"]

\* The master stays silent on a task without a record whose agent is
\* awaited after a failover; a status that names no agent counts as naming
\* an awaited one as long as any agent is awaited.
Unanswered(f, status) ==
  /\ status.task_id \notin frameworks.registered[f].tasks
  /\ IF status.slave_id = None
     THEN slaves.recovered # {}
     ELSE status.slave_id \in slaves.recovered

\* C24 as stated: every queried status gets exactly one update, with the
\* recorded state of the task or TASK_LOST.
ReconciliationComplete ==
  \A f \in RegisteredFrameworkIds, statuses \in ReconcileStatuses :
    statuses # <<>> =>
      LET sent == Master__reconcileTasks(State, f, statuses)
      IN /\ Len(sent) = Len(statuses)
         /\ \A i \in 1..Len(statuses) : sent[i] = DueUpdate(f, statuses[i])

\* C24: for the statuses queried in a reconcileTasks call of a registered
\* framework the master sends, in their order, exactly one update for each
\* status whose task it has a record of (the recorded state) or whose task
\* it has no record of while the agent is not awaited after a failover
\* (TASK_LOST), and no update for a task without a record whose agent is
\* awaited; a call with statuses never sends more updates than statuses
\* were queried, and a framework that is not registered gets nothing.
ReconciliationAnswers ==
  /\ hist.reconciled.queried > 0 =>
       hist.reconciled.sent <= hist.reconciled.queried
  /\ \A f \in FrameworkIds \ RegisteredFrameworkIds,
        statuses \in ReconcileStatuses :
       Master_reconcileTasks(State, f, statuses) = State
  /\ \A f \in RegisteredFrameworkIds, statuses \in ReconcileStatuses :
       statuses # <<>> =>
         LET sent == Master__reconcileTasks(State, f, statuses)
             answered == {i \in 1..Len(statuses) :
                            ~Unanswered(f, statuses[i])}
         IN /\ Len(sent) = Cardinality(answered)
            /\ \A i \in answered :
                 sent[Cardinality({j \in answered : j <= i})] =
                   DueUpdate(f, statuses[i])
            /\ Master_reconcileTasks(State, f, statuses) =
                 [State EXCEPT !.hist.reconciled =
                    [queried |-> Len(statuses),
                     sent |-> Cardinality(answered)]]

\* C24 witness: a call with two statuses got one update, and in this state,
\* with an agent awaited, a call naming a running task and a task without
\* a record gets the update for the running task only.
ReconciliationAnswersWitness ==
  /\ hist.reconciled = [queried |-> 2, sent |-> 1]
  /\ slaves.recovered # {}
  /\ \E f \in RegisteredFrameworkIds, statuses \in ReconcileStatuses :
       /\ Len(statuses) = 2
       /\ ~Unanswered(f, statuses[1])
       /\ Unanswered(f, statuses[2])
       /\ Master__reconcileTasks(State, f, statuses) =
            <<[task_id |-> statuses[1].task_id, state |-> "TASK_RUNNING"]>>

(***************************************************************************)
(* SpecActive: an agent and frameworks that disconnect and come back,      *)
(* with offers of the allocator that were decided before a deactivation    *)
(* and reach the master after it.                                          *)
(***************************************************************************)
\* The allocator's offer callback for resources it allocated to a
\* framework on an agent before one of them was deactivated or removed.
OfferRaced ==
  /\ ~aborted
  /\ nextIds.nextOfferId < MaxOffers
  /\ \E f \in IssuedFrameworkIds, s \in IssuedSlaveIds :
       /\ MapContains(allocator.total, s)
       /\ f \notin allocator.frameworks \/ s \notin allocator.slaves
       /\ \E u \in 0..MaxCpus, r \in 0..MaxCpus :
            /\ ~REmpty(Res(u, r))
            /\ RContains(Allocator_available(allocator, s), Res(u, r))
            /\ Handle(Master_offer(
                 [State EXCEPT !.allocator.allocated[<<f, s>>] = RAdd(@, Res(u, r))],
                 f, s, Res(u, r)))

NextActive ==
  \/ RegisterSlave({1}, MaxTaskSlaves)
  \/ RegistrarApply
  \/ SubscribePid(Pids)
  \/ Offer
  \/ OfferRaced
  \/ Decline
  \/ DisconnectFramework
  \/ ResubscribeFramework
  \/ DisconnectSlave
  \/ ReregisterKnownSlave

SpecActive == Init /\ [][NextActive]_vars

\* What Master::offer leaves of an offer for a framework or an agent that
\* is not there or not active: no offer, the resources back with the
\* allocator.
OfferRefused(st, f, s, resources) ==
  Master_offer([st EXCEPT !.allocator.allocated[<<f, s>>] = RAdd(@, resources)],
               f, s, resources) = st

\* C25: an offer that enters the offer table is of a registered agent and
\* a registered framework that are both active, before and after the step;
\* and in every state Master::offer, called for a framework or an agent
\* that is deactivated, inserts no offer and hands the resources back.
OffersOnlyToActive ==
  /\ [][\A o \in DOMAIN offers' \ DOMAIN offers :
          LET f == offers'[o].framework_id
              s == offers'[o].slave_id
          IN /\ f \in RegisteredFrameworkIds
             /\ s \in RegisteredSlaveIds
             /\ frameworks.registered[f].active
             /\ slaves.registered.ids[s].active
             /\ frameworks'.registered[f].active
             /\ slaves'.registered.ids[s].active]_vars
  /\ [](\A f \in RegisteredFrameworkIds, s \in RegisteredSlaveIds :
          (/\ ~aborted
           /\ ~frameworks.registered[f].active
                 \/ ~slaves.registered.ids[s].active) =>
            OfferRefused(State, f, s, Res(1, 0)))

\* C25 witness: one framework holds an offer of the agent, the other is
\* deactivated, the agent is active with resources left, and an offer of
\* them to the deactivated framework is refused.
OffersOnlyToActiveWitness ==
  \E f \in RegisteredFrameworkIds, g \in RegisteredFrameworkIds,
     s \in RegisteredSlaveIds :
    /\ frameworks.registered[f].offers # {}
    /\ ~frameworks.registered[g].active
    /\ slaves.registered.ids[s].active
    /\ RContains(Allocator_available(allocator, s), Res(1, 0))
    /\ OfferRefused(State, g, s, Res(1, 0))

\* The records of the unreachable list whose agent is not in toRemove, in
\* their order.
KeptUnreachable(unreachable, toRemove) ==
  SelectSeq(unreachable, LAMBDA record : record.id \notin toRemove)

\* C26: PruneUnreachable(toRemove), performed on the registry of any state,
\* removes from the unreachable list exactly the records of the agents in
\* toRemove and keeps the others in their order, leaves the admitted list
\* and the admitted-ID set alone, and returns true exactly when a record
\* was removed.
PruneRemovesExactly ==
  \A toRemove \in SUBSET RegistryIds :
    \A out \in PruneUnreachable_perform(registry, slaveIDs, toRemove) :
      /\ out.registry.unreachable =
           KeptUnreachable(registry.unreachable, toRemove)
      /\ out.registry.slaves = registry.slaves
      /\ out.slaveIDs = slaveIDs
      /\ out.result =
           IF \E i \in DOMAIN registry.unreachable :
                registry.unreachable[i].id \in toRemove
           THEN "true" ELSE "false"

\* How often agent id is in the admitted list.
TimesAdmitted(reg, id) ==
  Cardinality({i \in DOMAIN reg.slaves : reg.slaves[i] = id})

\* C27: MarkSlaveReachable(a), performed on the registry of any state,
\* returns no error and leaves a in the admitted list exactly once and in
\* the admitted-ID set; on an admitted a it changes nothing and returns
\* false; otherwise it returns true, appends a to the admitted list and
\* removes the first record of a from the unreachable list, if there is
\* one; performed again on its own outcome it changes nothing.
MarkReachableAdmitsOnce ==
  \A id \in RegistryIds :
    LET out == MarkSlaveReachable_perform(registry, slaveIDs, id)
        i == FirstIndex(registry.unreachable, LAMBDA x : x.id = id)
    IN /\ out.result \in {"true", "false"}
       /\ TimesAdmitted(out.registry, id) = 1
       /\ id \in out.slaveIDs
       /\ id \in slaveIDs => out = Outcome("false", registry, slaveIDs)
       /\ id \notin slaveIDs =>
            /\ out.result = "true"
            /\ out.registry.slaves = Append(registry.slaves, id)
            /\ out.slaveIDs = slaveIDs \cup {id}
            /\ out.registry.unreachable =
                 IF i # 0 THEN RemoveAt(registry.unreachable, i)
                 ELSE registry.unreachable
       /\ MarkSlaveReachable_perform(out.registry, out.slaveIDs, id) =
            Outcome("false", out.registry, out.slaveIDs)

\* C27 witness: MarkSlaveReachable was performed on an agent that was in
\* the unreachable list, which now holds another agent only.
MarkReachableAdmitsOnceWitness ==
  /\ regOp.type = "MarkSlaveReachable"
  /\ regOp.result = "true"
  /\ \E i \in DOMAIN regOp.registry.unreachable :
       regOp.registry.unreachable[i].id = regOp.op.id
  /\ registry.unreachable # <<>>
  /\ \A i \in DOMAIN registry.unreachable :
       registry.unreachable[i].id # regOp.op.id
  /\ TimesAdmitted(registry, regOp.op.id) = 1

(***************************************************************************)
(* SpecUnreachable: a master elected with a registry left by its           *)
(* predecessor; agents re-register, are marked unreachable when their      *)
(* health check fails or when they do not re-register in time, and come    *)
(* back.                                                                   *)
(***************************************************************************)
\* The health check of a registered agent times out.
MarkRegisteredUnreachable ==
  /\ ~aborted
  /\ Len(registrar) < MaxRegistryQueue
  /\ \E s \in RegisteredSlaveIds, time \in Times :
       Handle(Master_markUnreachable(State, s, time))

NextUnreachable ==
  \/ RecoverRegistry
  \/ ReregisterSlave(ExecutorInfoLists)
  \/ RegistrarApply
  \/ RecoveredSlavesTimeout
  \/ MarkUnreachableAfterFailover
  \/ MarkRegisteredUnreachable
  \/ ReregisterUnreachableSlave(ExecutorInfoLists)

SpecUnreachable == InitAgents /\ [][NextUnreachable]_vars

\* a is b with some of its elements left out.
RECURSIVE IsSubsequence(_, _)
IsSubsequence(a, b) ==
  IF a = <<>> THEN TRUE
  ELSE IF b = <<>> THEN FALSE
  ELSE IF Head(a) = Head(b) THEN IsSubsequence(Tail(a), Tail(b))
  ELSE IsSubsequence(a, Tail(b))

UnreachableIds(reg) == [i \in DOMAIN reg.unreachable |-> reg.unreachable[i].id]

\* What MarkSlaveUnreachable(id, time) does to the registry of this state.
MarkUnreachableOutcome(id, time) ==
  LET out == MarkSlaveUnreachable_perform(registry, slaveIDs, id, time)
  IN IF id \in slaveIDs
     THEN /\ out.result = "true"
          /\ id \notin out.slaveIDs
          /\ id \notin SeqIds(out.registry.slaves)
          /\ IsSubsequence(out.registry.slaves, registry.slaves)
          /\ Len(out.registry.slaves) = Len(registry.slaves) - 1
          /\ out.registry.unreachable =
               Append(registry.unreachable, [id |-> id, timestamp |-> time])
     ELSE out = Outcome("error", registry, slaveIDs)

\* A step keeps the records of the unreachable list in their order, and a
\* record that is new is the last one.
UnreachableAppended ==
  \/ IsSubsequence(registry'.unreachable, registry.unreachable)
  \/ /\ registry'.unreachable # <<>>
     /\ IsSubsequence(SubSeq(registry'.unreachable, 1,
                             Len(registry'.unreachable) - 1),
                      registry.unreachable)
     /\ registry'.unreachable[Len(registry'.unreachable)].id
          \notin SeqIds(UnreachableIds(registry))

\* C28: MarkSlaveUnreachable(a, t) on an admitted agent removes a from the
\* admitted list and the admitted-ID set and appends (a, t) at the end of
\* the unreachable list, and on an agent that is not admitted returns an
\* error and changes nothing; every step leaves the records of the
\* unreachable list in their order and adds a new one at the end only; the
\* master's unreachable index, once loaded, holds agents of the registry's
\* unreachable list in the registry's order, as long as the master runs.
UnreachableOrdered ==
  /\ [](\A id \in SlaveIds, time \in Times : MarkUnreachableOutcome(id, time))
  /\ [][UnreachableAppended]_vars
  /\ [](~aborted =>
         IsSubsequence(slaves.unreachable, UnreachableIds(registry)))

\* C28 witness: the unreachable list holds two agents, the second of which
\* was admitted when the first was marked, and the master's index holds
\* them in this order.
UnreachableOrderedWitness ==
  /\ Len(registry.unreachable) = 2
  /\ registry.unreachable[1].id # registry.unreachable[2].id
  /\ slaves.unreachable = UnreachableIds(registry)
  /\ slaves.recoveredTimer # "none"
  /\ registry.unreachable[2].id \in hist.recovered

\* Master::addTask of a task with an executor, for a framework and a
\* connected agent that do not have the task: the executor's resources are
\* consumed exactly when the agent does not run the executor yet, and
\* nothing aborts.
AddTaskExecutorOnce(f, s, taskInfo) ==
  LET slave == slaves.registered.ids[s]
      framework == frameworks.registered[f]
      had == Slave_hasExecutor(slave, f, taskInfo.executor_id)
      consumed == IF had THEN taskInfo.resources
                  ELSE RAdd(taskInfo.resources, taskInfo.executor_resources)
      r == Master_addTask(State, taskInfo, f, s)
  IN /\ ~r.st.aborted
     /\ r.consumed = consumed
     /\ Slave_hasExecutor(SlaveOf(r.st, s), f, taskInfo.executor_id)
     /\ Framework_hasExecutor(FrameworkOf(r.st, f), s, taskInfo.executor_id)
     /\ MapGetOr(SlaveOf(r.st, s).usedResources, f, RZero)
          = RAdd(MapGetOr(slave.usedResources, f, RZero), consumed)
     /\ MapGetOr(FrameworkOf(r.st, f).usedResources, s, RZero)
          = RAdd(MapGetOr(framework.usedResources, s, RZero), consumed)
     /\ FrameworkOf(r.st, f).totalUsedResources
          = RAdd(framework.totalUsedResources, consumed)

\* C29: an agent runs an executor of a framework exactly when the
\* framework has it on that agent; what a framework uses on an agent is
\* the resources of its live tasks there and of its executors there, each
\* executor counted once; and Master::addTask of a task that names an
\* executor adds the executor and its resources exactly when the executor
\* is not there yet, so that the duplicate CHECKs of addExecutor hold.
ExecutorResourcesOnce ==
  \A f \in RegisteredFrameworkIds, s \in RegisteredSlaveIds :
    /\ \A e \in ExecutorIds :
         Slave_hasExecutor(slaves.registered.ids[s], f, e)
           <=> Framework_hasExecutor(frameworks.registered[f], s, e)
    /\ MapGetOr(slaves.registered.ids[s].usedResources, f, RZero)
         = LiveResources(s, f)
    /\ \A taskInfo \in TaskInfos :
         (/\ ~aborted
          /\ taskInfo.executor_id # None
          /\ slaves.registered.ids[s].connected
          /\ <<f, taskInfo.task_id>> \notin DOMAIN tasks) =>
           AddTaskExecutorOnce(f, s, taskInfo)

\* C29 witness: two tasks of a framework on one agent name the same
\* executor; the second was launched while the executor was there, and
\* the framework uses on the agent the live task and the executor once.
ExecutorResourcesOnceWitness ==
  \E f \in RegisteredFrameworkIds, s \in RegisteredSlaveIds :
    /\ <<f, 1>> \in DOMAIN tasks /\ <<f, 2>> \in DOMAIN tasks
    /\ tasks[<<f, 1>>].slave_id = s /\ tasks[<<f, 2>>].slave_id = s
    /\ tasks[<<f, 1>>].executor_id = 1 /\ tasks[<<f, 2>>].executor_id = 1
    /\ isTerminalState(tasks[<<f, 1>>].state)
    /\ tasks[<<f, 2>>].state = "TASK_STAGING"
    /\ Slave_hasExecutor(slaves.registered.ids[s], f, 1)
    /\ MapGetOr(slaves.registered.ids[s].usedResources, f, RZero)
         = RAdd(tasks[<<f, 2>>].resources, ExecutorResources)

\* What the timer of offer id leaves when it fires for an offer that is
\* outstanding: the offer is in none of the three indices, the agent and
\* the framework no longer count its resources as offered, the allocator
\* has them back, and the other offers are as they were.
OfferExpired(after, id) ==
  LET offer == offers[id]
      f == offer.framework_id
      s == offer.slave_id
  IN /\ ~after.aborted
     /\ DOMAIN after.offers = DOMAIN offers \ {id}
     /\ \A o \in DOMAIN after.offers : after.offers[o] = offers[o]
     /\ id \notin after.offerTimers
     /\ SlaveOf(after, s).offers = slaves.registered.ids[s].offers \ {id}
     /\ FrameworkOf(after, f).offers = frameworks.registered[f].offers \ {id}
     /\ RAdd(SlaveOf(after, s).offeredResources, offer.resources)
          = slaves.registered.ids[s].offeredResources
     /\ RAdd(FrameworkOf(after, f).totalOfferedResources, offer.resources)
          = frameworks.registered[f].totalOfferedResources
     /\ RAdd(after.allocator.allocated[<<f, s>>], offer.resources)
          = allocator.allocated[<<f, s>>]

\* An offer that enters the table has an id that no earlier offer had.
OfferIdsFresh ==
  \A id \in DOMAIN offers' \ DOMAIN offers :
    /\ id >= nextIds.nextOfferId
    /\ id < nextIds'.nextOfferId

\* C30: the timer of an offer that is outstanding removes the offer from
\* the offer table, from its agent's offers and from its framework's
\* offers, and hands its resources back to the allocator; the timer of an
\* offer that was accepted, declined or rescinded changes nothing; the
\* counter of offer ids never decreases and every new offer takes an id at
\* or above it, so no id is used twice.
OfferExpiry ==
  /\ [](~aborted =>
         \A id \in OfferIds :
           id < nextIds.nextOfferId =>
             IF id \in DOMAIN offers
             THEN OfferExpired(Master_offerTimeout(State, id), id)
             ELSE Master_offerTimeout(State, id) = State)
  /\ [][/\ nextIds'.nextOfferId >= nextIds.nextOfferId
        /\ OfferIdsFresh]_vars

\* C30 witness: of two offers made, one is gone and the other is
\* outstanding with its timer running, so that a timer can fire for
\* either.
OfferExpiryWitness ==
  /\ ~aborted
  /\ nextIds.nextOfferId = 2
  /\ 0 \notin DOMAIN offers
  /\ 1 \in DOMAIN offers
  /\ 1 \in offerTimers
  /\ 0 \notin offerTimers
  /\ allocator.allocated[<<offers[1].framework_id, offers[1].slave_id>>]
       = offers[1].resources

\* The registry operations that take an agent out of the registered index
\* when they succeed.
Removal(op) ==
  \/ op.type = "RemoveSlave"
  \/ op.type = "MarkSlaveUnreachable" /\ ~op.failover

\* While a removal or an unreachable marking is queued at the registrar its
\* agent is registered and in the set of its transition, and the agents in
\* these sets are the ones with such an operation queued.
RemovalPending ==
  /\ \A i \in DOMAIN registrar :
       Removal(registrar[i]) =>
         /\ registrar[i].id \in RegisteredSlaveIds
         /\ InFlight(State, registrar[i])
  /\ \A id \in slaves.removing \cup slaves.markingUnreachable :
       /\ id \in RegisteredSlaveIds
       /\ \E i \in DOMAIN registrar :
            /\ Removal(registrar[i])
            /\ registrar[i].id = id
            /\ InFlight(State, registrar[i])

\* An agent leaves the registered index only in the step in which the
\* registrar completes its removal or marking with success: the admitted-ID
\* set of the registry loses the agent in the same step.
RemovedOnConfirmation ==
  \A id \in RegisteredSlaveIds :
    id \notin DOMAIN slaves'.registered.ids =>
      /\ registrar # <<>>
      /\ Removal(Head(registrar))
      /\ Head(registrar).id = id
      /\ registrar' = Tail(registrar)
      /\ id \in slaveIDs
      /\ id \notin slaveIDs'

\* The completion of a removal or marking takes the agent out of the set
\* of its transition, whatever the registrar answers.
RemovalCompletes ==
  registrar # <<>> /\ Removal(Head(registrar)) =>
    \A future \in {"true", "false", "failed"} :
      LET after == Master_continuation([State EXCEPT !.registrar = Tail(@)],
                                       Head(registrar), future)
          id == Head(registrar).id
      IN /\ id \notin after.slaves.removing
         /\ id \notin after.slaves.markingUnreachable
         /\ id \in DOMAIN after.slaves.registered.ids <=> future # "true"

\* C31: an agent leaves the registered index only when the registry has
\* confirmed its removal or its unreachable marking; from the issue of the
\* operation to its completion the agent is registered and its id is in
\* removing or markingUnreachable, and the completion takes it out of the
\* set.
DestroyedAfterConfirmation ==
  /\ [](~aborted => RemovalPending /\ RemovalCompletes)
  /\ [][~aborted => RemovedOnConfirmation]_vars

\* C31 witness: one agent is being removed and another is being marked
\* unreachable, both still registered, the removal first at the registrar.
DestroyedAfterConfirmationWitness ==
  /\ ~aborted
  /\ Len(registrar) = 2
  /\ registrar[1].type = "RemoveSlave"
  /\ registrar[2].type = "MarkSlaveUnreachable"
  /\ registrar[1].id \in slaves.removing
  /\ registrar[2].id \in slaves.markingUnreachable
  /\ {registrar[1].id, registrar[2].id} \subseteq RegisteredSlaveIds

\* Bounded history: agents and frameworks come and go one after the other,
\* run tasks to completion and are removed, so that each of the three
\* history containers, of HistoryCapacity entries, fills up and has to
\* evict.
\* The operation lists of an Accept call in the history specification: those
\* of LaunchOperations, and two tasks without executor launched at once.
HistoryLaunchOperations ==
  LaunchOperations \cup
    {<<[type |-> "LAUNCH", task |-> t], [type |-> "LAUNCH", task |-> u]>> :
       t \in {x \in TaskInfos : x.task_id = 1 /\ x.executor_id = None},
       u \in {x \in TaskInfos : x.task_id = 2 /\ x.executor_id = None}}

SubscribeHistory ==
  /\ ~aborted
  /\ RegisteredFrameworkIds = {}
  /\ nextIds.nextFrameworkId <= MaxHistoryFrameworks
  /\ Handle(Master_subscribe_pid(State, 1))

NextHistory ==
  \/ (RegisteredSlaveIds = {} /\ RegisterSlave({1}, MaxHistorySlaves))
  \/ RegistrarApply
  \/ SubscribeHistory
  \/ Offer
  \/ Accept(HistoryLaunchOperations)
  \/ AcceptAuthorized
  \/ StatusUpdate
  \/ Acknowledge
  \/ RemoveFramework
  \/ RemoveSlave

SpecHistory == InitHistory /\ [][NextHistory]_vars

\* What a bounded history container holds after the entry x is inserted
\* into one that held `old`: x behind the entries of `old`, without the
\* oldest of them if `old` was full.
OldestEvicted(old, x, capacity) ==
  IF Len(old) < capacity THEN Append(old, x) ELSE Append(Tail(old), x)

\* A step of the master leaves a container alone or inserts one of `ids`.
EvictedOldestFirst(old, new, capacity, ids) ==
  \/ new = old
  \/ \E x \in ids : new = OldestEvicted(old, x, capacity)

\* A step inserts into a framework's completed-task ring the tasks that the
\* framework loses in the step: none, one, or the two tasks of an agent that
\* is removed, one after the other.
CompletedTasksEvictOldestFirst(old, new, gone) ==
  \/ gone = {} /\ new = old
  \/ \E x \in [task_id : gone, state : TaskStates] :
       /\ gone = {x.task_id}
       /\ new = OldestEvicted(old, x, MaxCompletedTasks)
  \/ \E x, y \in [task_id : gone, state : TaskStates] :
       /\ x.task_id # y.task_id
       /\ gone = {x.task_id, y.task_id}
       /\ new = OldestEvicted(OldestEvicted(old, x, MaxCompletedTasks), y,
                              MaxCompletedTasks)

HistoryBounded ==
  /\ Len(frameworks.completed) <= MaxCompletedFrameworks
  /\ Len(slaves.removed) <= MaxRemovedSlaves
  /\ \A f \in RegisteredFrameworkIds :
       Len(frameworks.registered[f].completedTasks) <= MaxCompletedTasks

HistoryEvicts ==
  /\ EvictedOldestFirst(frameworks.completed, frameworks.completed',
                        MaxCompletedFrameworks,
                        RegisteredFrameworkIds \ DOMAIN frameworks'.registered)
  /\ EvictedOldestFirst(slaves.removed, slaves.removed', MaxRemovedSlaves,
                        RegisteredSlaveIds \ DOMAIN slaves'.registered.ids)
  /\ \A f \in RegisteredFrameworkIds \cap DOMAIN frameworks'.registered :
       CompletedTasksEvictOldestFirst(
         frameworks.registered[f].completedTasks,
         frameworks'.registered[f].completedTasks,
         frameworks.registered[f].tasks \ frameworks'.registered[f].tasks)

\* C32: the completed-framework ring, every framework's completed-task ring
\* and the removed-agent cache never hold more entries than their
\* capacities, and every step of the master that inserts into one of them
\* appends the entry, after dropping the oldest entry if the container was
\* full.
BoundedHistory ==
  /\ []HistoryBounded
  /\ [][HistoryEvicts]_vars

\* C32 witness: three agents and three frameworks have been removed; the
\* removed-agent cache and the completed-framework ring, of capacity two,
\* have each evicted their first entry and kept the second in front of the
\* third.
BoundedHistoryWitness ==
  /\ ~aborted
  /\ MaxRemovedSlaves = 2
  /\ MaxCompletedFrameworks = 2
  /\ slaves.removed = <<2, 3>>
  /\ frameworks.completed = <<2, 3>>

\* Roles: frameworks of two roles subscribe, are offered an agent's
\* resources, launch tasks, disconnect and are removed, by the scheduler's
\* request or when their failover timeout fires.
Roles == {"a", "b"}

SubscribeRole ==
  /\ ~aborted
  /\ nextIds.nextFrameworkId <= MaxFrameworks
  /\ \E role \in Roles : Handle(Master_subscribe_role(State, 1, role))

NextRoles ==
  \/ RegisterSlave({1}, MaxTaskSlaves)
  \/ RegistrarApply
  \/ SubscribeRole
  \/ Offer
  \/ Accept(LaunchOperations)
  \/ AcceptAuthorized
  \/ Decline
  \/ DisconnectFramework
  \/ FrameworkFailoverTimeout
  \/ RemoveFramework

SpecRoles == Init /\ [][NextRoles]_vars

FrameworksOfRole(role) ==
  {f \in RegisteredFrameworkIds : frameworks.registered[f].role = role}

RoleResources(role) ==
  RSum([f \in FrameworksOfRole(role) |->
          RAdd(frameworks.registered[f].totalUsedResources,
               frameworks.registered[f].totalOfferedResources)],
       FrameworksOfRole(role))

\* C33: a role is active exactly while a registered framework has it, the
\* members of a Role are exactly the registered frameworks of that role, and
\* Role::resources() is the sum of their used and offered resources.
RoleMembership ==
  ~aborted =>
    /\ \A role \in Roles \cup {DefaultRole} :
         MapContains(activeRoles, role) <=> FrameworksOfRole(role) # {}
    /\ \A role \in DOMAIN activeRoles :
         /\ activeRoles[role] = FrameworksOfRole(role)
         /\ Role_resources(activeRoles[role], frameworks.registered)
              = RoleResources(role)
    /\ \A f \in RegisteredFrameworkIds :
         {role \in DOMAIN activeRoles : f \in activeRoles[role]}
           = {frameworks.registered[f].role}

\* C33 witness: two frameworks are registered, one of each role, each
\* holding resources of the agent, offered or used by a task.
RoleMembershipWitness ==
  /\ ~aborted
  /\ DOMAIN activeRoles = Roles
  /\ \A role \in Roles :
       ~REmpty(Role_resources(activeRoles[role], frameworks.registered))
  /\ \E f \in RegisteredFrameworkIds :
       frameworks.registered[f].totalUsedResources # RZero

DisconnectedInactive ==
  /\ \A s \in RegisteredSlaveIds :
       ~slaves.registered.ids[s].connected => ~slaves.registered.ids[s].active
  /\ \A f \in RegisteredFrameworkIds :
       ~frameworks.registered[f].connected => ~frameworks.registered[f].active

ActivatedWhenConnected ==
  /\ \A s \in RegisteredSlaveIds \cap DOMAIN slaves'.registered.ids :
       /\ ~slaves.registered.ids[s].active
       /\ slaves'.registered.ids[s].active
       => slaves'.registered.ids[s].connected
  /\ \A f \in RegisteredFrameworkIds \cap DOMAIN frameworks'.registered :
       /\ ~frameworks.registered[f].active
       /\ frameworks'.registered[f].active
       => frameworks'.registered[f].connected

\* C34: an agent or a framework that is not connected is not active, and
\* one that becomes active is connected in the state in which it is active
\* again.
DisconnectedImpliesDeactivated ==
  /\ [](~aborted => DisconnectedInactive)
  /\ [][~aborted' => ActivatedWhenConnected]_vars

\* C34 witness: the agent is disconnected and inactive, one framework is
\* disconnected and inactive, and another one has re-subscribed after a
\* disconnection and is connected and active again.
DisconnectedImpliesDeactivatedWitness ==
  /\ ~aborted
  /\ \E s \in RegisteredSlaveIds :
       /\ ~slaves.registered.ids[s].connected
       /\ ~slaves.registered.ids[s].active
  /\ \E f, g \in RegisteredFrameworkIds :
       /\ ~frameworks.registered[f].connected
       /\ ~frameworks.registered[f].active
       /\ hist.epochs[g] > 0
       /\ frameworks.registered[g].connected
       /\ frameworks.registered[g].active

(***************************************************************************)
(* SpecIndex: the index of registered agents.  Each action is one call on  *)
(* slaves.registered or one assignment to the address of a registered      *)
(* Slave, in any order.  An agent is put under an id that is not           *)
(* registered and from an address the index does not know, as              *)
(* registerSlave and addSlave do; an agent's address changes to one at     *)
(* which no other registered agent is.                                     *)
(***************************************************************************)
MaxIndexPids == 3

IndexPids == 1..MaxIndexPids

indexUnchanged ==
  UNCHANGED <<frameworks, offers, offerTimers, tasks, nextIds, registry,
              slaveIDs, registrar, pending, allocator, http, aborted, hist,
              regOp, activeRoles, inverseOffers, inverseOfferTimers,
              flags>>

indexOthersUnchanged ==
  UNCHANGED <<frameworks, offers, offerTimers, nextIds, registry, slaveIDs,
              registrar, pending, allocator, http, hist, regOp, activeRoles,
              inverseOffers, inverseOfferTimers, flags>>

\* The tasks agent `id` reports when it is constructed: none, one that
\* runs, one that has finished, and one twice.
IndexTaskLists(id) ==
  LET t == [task_id |-> id, framework_id |-> 1, slave_id |-> id,
            state |-> "TASK_RUNNING", resources |-> Res(1, 0),
            executor_id |-> None, terminations |-> 0, terminalUpdates |-> 0]
  IN {<<>>, <<t>>, <<[t EXCEPT !.state = "TASK_FINISHED"]>>, <<t, t>>}

\* new Task(task) for every task of the list.
RECURSIVE IndexNewTasks(_, _)
IndexNewTasks(objects, list) ==
  IF list = <<>> THEN objects
  ELSE IndexNewTasks(
         MapPut(objects, <<Head(list).framework_id, Head(list).task_id>>,
                Head(list)),
         Tail(list))

\* new Slave(...) and registered.put(slave); a CHECK of the constructor
\* that fails ends the process.
IndexPut ==
  /\ ~aborted
  /\ \E id \in SlaveIds, pid \in IndexPids,
        executorInfos \in ExecutorInfoLists :
       \E list \in IndexTaskLists(id) :
         /\ ~Registered_contains_id(slaves.registered, id)
         /\ ~Registered_contains_pid(slaves.registered, pid)
         /\ IF Slave_Slave_CHECK(id, pid, Res(MaxCpus, 0), RZero,
                                 executorInfos, list)
            THEN /\ slaves' = [slaves EXCEPT !.registered =
                                 Registered_put(@,
                                   Slave_Slave(id, pid, Res(MaxCpus, 0), RZero,
                                               executorInfos, list))]
                 /\ tasks' = IndexNewTasks(tasks, list)
                 /\ UNCHANGED aborted
            ELSE /\ aborted' = TRUE
                 /\ UNCHANGED <<slaves, tasks>>
  /\ indexOthersUnchanged

\* registered.clear()
IndexClear ==
  /\ ~aborted
  /\ slaves' = [slaves EXCEPT !.registered = Registered_clear(@)]
  /\ indexUnchanged

IndexRemove ==
  /\ ~aborted
  /\ \E id \in RegisteredSlaveIds :
       slaves' = [slaves EXCEPT !.registered =
                    Registered_remove(@, slaves.registered.ids[id])]
  /\ indexUnchanged

\* slave->pid = from, for a registered agent that re-registers from a new
\* address: the Slave object is written, the index is not called.
IndexAddressChange ==
  /\ ~aborted
  /\ \E id \in RegisteredSlaveIds, from \in IndexPids :
       /\ \A other \in RegisteredSlaveIds :
            slaves.registered.ids[other].pid # from
       /\ slaves' = [slaves EXCEPT !.registered.ids[id].pid = from]
  /\ indexUnchanged

NextIndex ==
  \/ IndexPut
  \/ IndexRemove
  \/ IndexClear
  \/ IndexAddressChange

SpecIndex == Init /\ [][NextIndex]_vars

\* C35: the by-id index and the by-address index hold the same agents,
\* each under its id and its current address: every agent of the by-id
\* index is found under its address, every address of the by-address index
\* leads to a registered agent that is at this address, and size() counts
\* both.
IndexesConsistent ==
  /\ \A id \in DOMAIN slaves.registered.ids :
       /\ slaves.registered.ids[id].id = id
       /\ Registered_get_pid(slaves.registered,
                             slaves.registered.ids[id].pid) = id
  /\ \A pid \in DOMAIN slaves.registered.pids :
       /\ Registered_contains_id(slaves.registered,
                                 slaves.registered.pids[pid])
       /\ slaves.registered.ids[slaves.registered.pids[pid]].pid = pid
  /\ Registered_size(slaves.registered)
       = Cardinality(DOMAIN slaves.registered.pids)

\* C36: the admitted-ID set handed to perform is exactly the set of ids in
\* the registry's admitted list, and no id is in this list twice.
AdmittedSetExact ==
  ~aborted =>
    /\ slaveIDs = SeqIds(registry.slaves)
    /\ \A i, j \in DOMAIN registry.slaves :
         registry.slaves[i] = registry.slaves[j] => i = j

\* C36 witness: with two agents admitted, a RemoveSlave has just taken a
\* third id out of the list and out of the set.
AdmittedSetExactWitness ==
  /\ ~aborted
  /\ regOp.type = "RemoveSlave"
  /\ regOp.result = "true"
  /\ regOp.op.id \in regOp.slaveIDs
  /\ regOp.op.id \notin slaveIDs
  /\ Len(registry.slaves) = 2

\* C37: no agent id is in the admitted list and in the unreachable list,
\* and no agent id is in the unreachable list twice.
ListsDisjoint ==
  ~aborted =>
    /\ SeqIds(registry.slaves) \cap SeqIds(UnreachableIds(registry)) = {}
    /\ \A i, j \in DOMAIN registry.unreachable :
         registry.unreachable[i].id = registry.unreachable[j].id => i = j

ListsDisjointIn(reg) ==
  /\ SeqIds(reg.slaves) \cap SeqIds(UnreachableIds(reg)) = {}
  /\ \A i, j \in DOMAIN reg.unreachable :
       reg.unreachable[i].id = reg.unreachable[j].id => i = j

\* The step is an AdmitSlave of an id that is in the unreachable list.
AdmitsUnreachable ==
  /\ regOp'.type = "AdmitSlave"
  /\ regOp'.op.id \in SeqIds(UnreachableIds(registry))

\* C37, amended: the empty registry has no id in both lists and none twice
\* in the unreachable list, and every operation keeps it so except an
\* AdmitSlave of an id that is in the unreachable list.
ListsDisjointPreserved ==
  /\ [](regOp.type = "none" => ListsDisjointIn(registry))
  /\ [][/\ ~aborted'
        /\ ListsDisjointIn(registry)
        /\ ~AdmitsUnreachable
        => ListsDisjointIn(registry')]_vars

\* C37 witness: a MarkSlaveUnreachable has moved an agent behind another
\* one in the unreachable list while a third agent stays admitted.
ListsDisjointPreservedWitness ==
  /\ ~aborted
  /\ regOp.type = "MarkSlaveUnreachable"
  /\ regOp.result = "true"
  /\ ListsDisjointIn(regOp.registry)
  /\ Len(regOp.registry.unreachable) = 1
  /\ Len(registry.unreachable) = 2
  /\ Len(registry.slaves) = 1
  /\ ListsDisjointIn(registry)

(***************************************************************************)
(* SpecHeartbeat: the connection of Framework objects as the master's      *)
(* handlers drive it.  A subscription over HTTP constructs the Framework   *)
(* and starts its heartbeat; a failover replaces the connection, marks the *)
(* framework connected and active and, over HTTP, starts the heartbeat; a  *)
(* removal destroys the Framework.                                         *)
(***************************************************************************)
HeartbeatSubscribeHttp ==
  /\ ~aborted
  /\ ConnIdle
  /\ nextIds.nextFrameworkId <= MaxFrameworks
  /\ http.nextStreamId <= MaxConnections
  /\ \E role \in ConnRoles :
       LET id == nextIds.nextFrameworkId
       IN IF Framework_heartbeat_CHECK(
               Framework_Framework(id, role, None, http.nextStreamId, 0))
          THEN /\ frameworks' = [frameworks EXCEPT !.registered =
                                   MapPut(@, id, Master_subscribe_http(
                                                   id, role, http.nextStreamId))]
               /\ nextIds' = [nextIds EXCEPT !.nextFrameworkId = @ + 1]
               /\ http' = [http EXCEPT !.nextStreamId = @ + 1]
               /\ UNCHANGED aborted
          ELSE ConnAborts
  /\ connUnchanged

HeartbeatFailoverPid ==
  /\ ~aborted
  /\ ConnIdle
  /\ \E f \in DOMAIN frameworks.registered, pid \in Pids :
       LET framework == frameworks.registered[f]
       IN IF ~Master_failoverFramework_pid_CHECK(framework, pid)
          THEN ConnAborts
          ELSE IF framework.http # None
          THEN ConnWaits(f, "failoverFramework_pid", pid)
          ELSE /\ frameworks' = [frameworks EXCEPT !.registered[f] =
                                   Master_failoverFramework_pid(framework, pid)]
               /\ UNCHANGED <<http, nextIds, aborted>>
  /\ connUnchanged

HeartbeatFailoverHttp ==
  /\ ~aborted
  /\ ConnIdle
  /\ http.nextStreamId <= MaxConnections
  /\ \E f \in DOMAIN frameworks.registered :
       LET framework == frameworks.registered[f]
       IN IF ~Master_failoverFramework_http_CHECK(framework, http.nextStreamId)
          THEN ConnAborts
          ELSE IF framework.pid = None
          THEN ConnWaits(f, "failoverFramework_http", http.nextStreamId)
          ELSE /\ frameworks' = [frameworks EXCEPT !.registered[f] =
                                   Master_failoverFramework_http(
                                     framework, http.nextStreamId)]
               /\ http' = [http EXCEPT !.nextStreamId = @ + 1]
               /\ UNCHANGED <<nextIds, aborted>>
  /\ connUnchanged

NextHeartbeat ==
  \/ ConnNewPid
  \/ HeartbeatSubscribeHttp
  \/ HeartbeatFailoverPid
  \/ HeartbeatFailoverHttp
  \/ ConnDisconnect
  \/ ConnDelete
  \/ ConnWaitReturns
  \/ HeartbeaterHeartbeat

SpecHeartbeat == Init /\ [][NextHeartbeat]_vars

\* A heartbeater exists exactly while the HTTP connection is installed,
\* and it is the heartbeater of this connection.
HeartbeaterWhileHttp ==
  \A f \in RegisteredFrameworkIds \ ConnWaiting :
    /\ frameworks.registered[f].heartbeater = frameworks.registered[f].http
    /\ frameworks.registered[f].http = None
         <=> frameworks.registered[f].pid # None

\* Inside closeHttpConnection, while the master waits for the Heartbeater
\* to terminate: the connection is dropped and its pipe closed, the
\* Heartbeater is the one of the dropped connection and can write
\* nothing, and no new connection is there.
HeartbeaterWhileWaiting ==
  \A f \in RegisteredFrameworkIds \cap ConnWaiting :
    /\ frameworks.registered[f].http = None
    /\ frameworks.registered[f].pid = None
    /\ frameworks.registered[f].heartbeater = http.waiting[1].framework.http
    /\ frameworks.registered[f].heartbeater \in http.closed
    /\ ~Heartbeater_heartbeat(frameworks.registered[f].heartbeater,
                              http.closed)

\* A framework whose HTTP connection is dropped in this step: the pipe of
\* the connection is closed and the master waits for its Heartbeater.  A
\* framework on which a connection is installed, or which is destroyed, in
\* this step: no Heartbeater of an earlier connection remains, and the
\* pipe of the connection it had is closed.
OldConnectionClosed ==
  \A f \in RegisteredFrameworkIds :
    LET old == frameworks.registered[f].http
        heartbeater == frameworks.registered[f].heartbeater
    IN /\ /\ old # None
          /\ \/ f \notin DOMAIN frameworks'.registered
             \/ frameworks'.registered[f].http # old
          => /\ old \in http'.closed
             /\ f \in DOMAIN frameworks'.registered
             /\ frameworks'.registered[f].http = None
             /\ frameworks'.registered[f].heartbeater = old
             /\ http'.waiting # <<>>
             /\ http'.waiting[1].framework.id = f
       /\ /\ heartbeater # None
          /\ \/ f \notin DOMAIN frameworks'.registered
             \/ frameworks'.registered[f].http \notin {None, old}
          => /\ heartbeater \in http.closed
             /\ \A g \in DOMAIN frameworks'.registered :
                  frameworks'.registered[g].heartbeater # heartbeater

\* C38: no CHECK of closeHttpConnection, heartbeat or updateConnection
\* fails in any sequence of subscriptions, failovers, disconnections and
\* removals; a heartbeater exists exactly while the HTTP connection is
\* installed; and when a connection is replaced or dropped the old
\* heartbeater is stopped and the old pipe is closed.
HeartbeaterLifecycle ==
  /\ [](~aborted /\ HeartbeaterWhileHttp /\ HeartbeaterWhileWaiting)
  /\ [][OldConnectionClosed]_vars

\* C38 witness: a framework is on a later HTTP connection with its
\* heartbeater, the pipe of an earlier connection is closed, and another
\* framework is connected by PID.
HeartbeaterLifecycleWitness ==
  /\ ~aborted
  /\ ConnIdle
  /\ \E f, g \in RegisteredFrameworkIds :
       /\ frameworks.registered[f].http # None
       /\ frameworks.registered[f].heartbeater = frameworks.registered[f].http
       /\ frameworks.registered[f].http \notin http.closed
       /\ \E old \in http.closed : old < frameworks.registered[f].http
       /\ frameworks.registered[g].pid # None
       /\ frameworks.registered[g].http = None

\* Agents of a registry left by a predecessor re-register or are marked
\* unreachable at the failover, and registered agents are marked
\* unreachable, removed and re-registered.
NextTransitions ==
  \/ RecoverRegistry
  \/ ReregisterSlave(ExecutorInfoLists)
  \/ RegistrarApply
  \/ RecoveredSlavesTimeout
  \/ MarkUnreachableAfterFailover
  \/ MarkRegisteredUnreachable
  \/ RemoveSlave
  \/ ReregisterUnreachableSlave(ExecutorInfoLists)

SpecTransitions == InitAgents /\ [][NextTransitions]_vars

\* The number of re-registrations of agent `id` queued at the registrar.
ReregistrationsQueued(id) ==
  Cardinality({i \in DOMAIN registrar :
                 /\ registrar[i].type = "MarkSlaveReachable"
                 /\ registrar[i].id = id})

\* C39: an agent in `recovered` is not registered; an agent in `removing`
\* or `markingUnreachable` is registered and in one of the two sets only;
\* an agent in `reregistering` is not registered and has one
\* re-registration queued; a registered agent is not in the in-memory
\* `unreachable` index.
TransitionalSetsConsistent ==
  ~aborted =>
    /\ slaves.recovered \cap RegisteredSlaveIds = {}
    /\ slaves.removing \cup slaves.markingUnreachable
         \subseteq RegisteredSlaveIds
    /\ slaves.removing \cap slaves.markingUnreachable = {}
    /\ slaves.reregistering \cap RegisteredSlaveIds = {}
    /\ \A id \in SlaveIds :
         ReregistrationsQueued(id)
           = IF id \in slaves.reregistering THEN 1 ELSE 0
    /\ RegisteredSlaveIds \cap SeqIds(slaves.unreachable) = {}

\* C39, amended: as C39, but an agent in `markingUnreachable` is
\* registered or, when it is marked for not having re-registered after a
\* failover, in `recovered`.
TransitionalSetsAmended ==
  ~aborted =>
    /\ slaves.recovered \cap RegisteredSlaveIds = {}
    /\ slaves.removing \subseteq RegisteredSlaveIds
    /\ slaves.markingUnreachable
         \subseteq RegisteredSlaveIds \cup slaves.recovered
    /\ slaves.removing \cap slaves.markingUnreachable = {}
    /\ slaves.reregistering \cap RegisteredSlaveIds = {}
    /\ \A id \in SlaveIds :
         ReregistrationsQueued(id)
           = IF id \in slaves.reregistering THEN 1 ELSE 0
    /\ RegisteredSlaveIds \cap SeqIds(slaves.unreachable) = {}

\* C39 witness: an agent that did not re-register after the failover is
\* being marked unreachable, in `recovered` and not registered, while a
\* registered agent is being removed.
TransitionalSetsAmendedWitness ==
  /\ ~aborted
  /\ \E a \in slaves.markingUnreachable \cap slaves.recovered :
       a \notin RegisteredSlaveIds
  /\ \E b \in slaves.removing : b \in RegisteredSlaveIds

\* C40: usedResources of a Slave has a key for a framework only while the
\* framework has a task or an executor on that agent.
UsedResourcesKeysLive ==
  ~aborted =>
    \A s \in RegisteredSlaveIds :
      \A f \in DOMAIN slaves.registered.ids[s].usedResources :
        \/ MapContains(slaves.registered.ids[s].tasks, f)
        \/ MapContains(slaves.registered.ids[s].executors, f)

====
